---- MODULE Spec2Model ----
(***************************************************************************)
(* A model of the agamotto time tracker: the CSV import pipeline           *)
(* (parseCSV, validateCSV, parseDateDDMMYYYY, importSessionsFromCSV), the  *)
(* sessions store with its single-active-session check (saveSession) and  *)
(* the tags store with its colour palette and unique colour index.         *)
(*                                                                         *)
(* JavaScript strings are TLA+ strings, read one character at a time with  *)
(* SubSeq. A JavaScript number parsed from a cell is kept in thousandths   *)
(* (the cells of the model carry at most three decimals and no exponent),  *)
(* so that  parseFloat(duration) * 1000  is the integer number of          *)
(* milliseconds. An epoch-millisecond timestamp is the pair                *)
(* [day, ms]: days since 1970-01-01 and milliseconds within the day (the   *)
(* local time zone is taken to be UTC, without daylight saving).           *)
(***************************************************************************)
EXTENDS Integers, Sequences, FiniteSets, TLC

VARIABLES
    content,     \* the text of the CSV file the user imports
    sessions,    \* the sessions object store: id -> Session
    tags,        \* the tags object store: name -> Tag
    nextId,      \* source of fresh session ids (Date.now + random in the code)
    history,     \* one record per completed call, oldest first
    clock,       \* Date.now(); no time passes within a behaviour
    pc,          \* position of each TagSelector.handleCreateTag call
    pending      \* the colour and name each handleCreateTag call holds

vars == <<content, sessions, tags, nextId, history, clock, pc, pending>>

(***************************************************************************)
(* Strings                                                                 *)
(***************************************************************************)
Ch(s, i) == SubSeq(s, i, i)

From(s, i) == SubSeq(s, i, Len(s))

Whitespace == {" ", "\t", "\r", "\n"}

Digits == {"0", "1", "2", "3", "4", "5", "6", "7", "8", "9"}

DigitVal(c) ==
    CASE c = "0" -> 0 [] c = "1" -> 1 [] c = "2" -> 2 [] c = "3" -> 3
      [] c = "4" -> 4 [] c = "5" -> 5 [] c = "6" -> 6 [] c = "7" -> 7
      [] c = "8" -> 8 [] c = "9" -> 9

RECURSIVE TrimStart(_)
TrimStart(s) ==
    IF Len(s) > 0 /\ Ch(s, 1) \in Whitespace THEN TrimStart(From(s, 2)) ELSE s

RECURSIVE TrimEnd(_)
TrimEnd(s) ==
    IF Len(s) > 0 /\ Ch(s, Len(s)) \in Whitespace
    THEN TrimEnd(SubSeq(s, 1, Len(s) - 1))
    ELSE s

\* String.prototype.trim
Trim(s) == TrimEnd(TrimStart(s))

\* String.prototype.split with a one-character separator: the pieces of s
\* between one occurrence of sep and the next
Split(s, sep) ==
    LET Pieces(cuts) ==
            LET n == Cardinality(cuts)
                Cut(k) == CHOOSE p \in cuts : Cardinality({q \in cuts : q < p}) = k - 1
            IN  [k \in 1..(n + 1) |->
                    SubSeq(s, IF k = 1 THEN 1 ELSE Cut(k - 1) + 1,
                              IF k = n + 1 THEN Len(s) ELSE Cut(k) - 1)]
    IN  Pieces({i \in 1..Len(s) : Ch(s, i) = sep})

RECURSIVE DigitPrefix(_)
DigitPrefix(s) ==
    IF Len(s) > 0 /\ Ch(s, 1) \in Digits
    THEN Ch(s, 1) \o DigitPrefix(From(s, 2))
    ELSE ""

RECURSIVE IntVal(_)
IntVal(ds) ==
    IF Len(ds) = 0 THEN 0
    ELSE IntVal(SubSeq(ds, 1, Len(ds) - 1)) * 10 + DigitVal(Ch(ds, Len(ds)))

StartsWith(s, p) == Len(s) >= Len(p) /\ SubSeq(s, 1, Len(p)) = p

NaN == [kind |-> "nan", val |-> 0]

\* parseInt(s, 10): leading white space, an optional sign, then digits
ParseInt(s) ==
    LET Signed(t) ==
            LET signed == Len(t) > 0 /\ Ch(t, 1) \in {"-", "+"}
                neg == Len(t) > 0 /\ Ch(t, 1) = "-"
                Value(ds) ==
                    IF Len(ds) = 0 THEN NaN
                    ELSE [kind |-> "num", val |-> (IF neg THEN 0 - 1 ELSE 1) * IntVal(ds)]
            IN  Value(DigitPrefix(IF signed THEN From(t, 2) ELSE t))
    IN  Signed(TrimStart(s))

\* parseFloat(s), in thousandths: leading white space, an optional sign, then
\* Infinity or digits with an optional fraction
ParseFloat(s) ==
    LET Signed(t) ==
            LET signed == Len(t) > 0 /\ Ch(t, 1) \in {"-", "+"}
                neg == Len(t) > 0 /\ Ch(t, 1) = "-"
                Unsigned(u) ==
                    LET Whole(ip) ==
                            LET rest == From(u, Len(ip) + 1)
                                Fraction(fp) ==
                                    IF StartsWith(u, "Infinity")
                                    THEN [kind |-> "inf", val |-> IF neg THEN 0 - 1 ELSE 1]
                                    ELSE IF Len(ip) = 0 /\ Len(fp) = 0 THEN NaN
                                    ELSE [kind |-> "num",
                                          val |-> (IF neg THEN 0 - 1 ELSE 1)
                                                  * (IntVal(ip) * 1000
                                                     + IntVal(SubSeq(fp \o "000", 1, 3)))]
                            IN  Fraction(IF Len(rest) > 0 /\ Ch(rest, 1) = "."
                                         THEN DigitPrefix(From(rest, 2)) ELSE "")
                    IN  Whole(DigitPrefix(u))
            IN  Unsigned(IF signed THEN From(t, 2) ELSE t)
    IN  Signed(TrimStart(s))

IsNaN(n) == n.kind = "nan"

\* n < 0 and n > bound (in thousandths); every comparison with NaN is false
LessThanZero(n) == n.kind # "nan" /\ n.val < 0

\* Faulty variant of GreaterThan: no number is above the bound
NeverGreaterThan(n, bound) == FALSE

GreaterThan(n, bound) == (n.kind = "inf" /\ n.val > 0) \/ (n.kind = "num" /\ n.val > bound)

(***************************************************************************)
(* parseCSV                                                                *)
(***************************************************************************)
\* The body of the character loop of parseCSV at line[i]; skip is the i++ that
\* steps over the second quote of an escaped pair
ParseStep(line, i, st) ==
    IF st.skip THEN [st EXCEPT !.skip = FALSE]
    ELSE LET char == Ch(line, i) IN
        IF char = "\"" THEN
            IF st.insideQuotes /\ i + 1 <= Len(line) /\ Ch(line, i + 1) = "\""
            THEN [st EXCEPT !.currentCell = @ \o "\"", !.skip = TRUE]
            ELSE [st EXCEPT !.insideQuotes = ~@]
        ELSE IF char = "," /\ ~st.insideQuotes
            THEN [st EXCEPT !.row = Append(@, st.currentCell), !.currentCell = ""]
        ELSE [st EXCEPT !.currentCell = @ \o char]

\* The loop over line[lo..hi], halved, the left half computed before the right
\* half starts, so that the evaluation stays shallow
RECURSIVE ParseRange(_, _, _, _)
ParseRange(line, lo, hi, st) ==
    IF lo > hi THEN st
    ELSE IF lo = hi THEN ParseStep(line, lo, st)
    ELSE LET mid == (lo + hi) \div 2
             left == ParseRange(line, lo, mid, st)
         IN  IF left.skip \in BOOLEAN THEN ParseRange(line, mid + 1, hi, left) ELSE left

ParseLine(line) ==
    LET Last(st) == Append(st.row, st.currentCell)
    IN  Last(ParseRange(line, 1, Len(line),
                        [row |-> <<>>, currentCell |-> "", insideQuotes |-> FALSE,
                         skip |-> FALSE]))

ParseCSV(text) ==
    LET Rows(lines) == [k \in 1..Len(lines) |-> ParseLine(lines[k])]
    IN  Rows(SelectSeq(Split(text, "\n"), LAMBDA line : Len(Trim(line)) > 0))

(***************************************************************************)
(* parseDateDDMMYYYY                                                       *)
(***************************************************************************)
MsPerSecond == 1000

\* Days from 1970-01-01 to the first day of month m (1..12) of year y
DaysFromCivil(y, m) ==
    LET yy == IF m <= 2 THEN y - 1 ELSE y
        era == yy \div 400
        yoe == yy - era * 400
        mp == IF m > 2 THEN m - 3 ELSE m + 9
        doy == (153 * mp + 2) \div 5
        doe == yoe * 365 + yoe \div 4 - yoe \div 100 + doy
    IN  era * 146097 + doe - 719468

\* new Date(year, month, day, hours, minutes, seconds).getTime(): the month is
\* 0-indexed, a year 0..99 means 1900 + year, and a month or day out of range
\* carries into the next (or previous) year or month.
MakeDate(year, month, day, hours, minutes, seconds) ==
    LET fullYear == IF year >= 0 /\ year <= 99 THEN 1900 + year ELSE year
        ym == fullYear + month \div 12
        mn == month % 12
        d == DaysFromCivil(ym, mn + 1) + (day - 1)
    IN  IF d > 100000000 \/ d < 0 - 100000000
        THEN NaN
        ELSE [kind |-> "num",
              val |-> [day |-> d,
                       ms |-> (hours * 3600 + minutes * 60 + seconds) * MsPerSecond]]

AllDigits(s) == Len(s) = Len(DigitPrefix(s))

\* new Date("2000-01-01 " + timeStr), read back with getHours, getMinutes and
\* getSeconds: H:M or H:M:S with one or two digits each and in range is a
\* time; anything else the model's cells hold is an Invalid Date.
ParseTime(timeStr) ==
    LET Time(parts) ==
            LET wellFormed ==
                    /\ Len(parts) \in {2, 3}
                    /\ \A k \in 1..Len(parts) :
                            Len(parts[k]) \in {1, 2} /\ AllDigits(parts[k])
                Fields(h, m, s) ==
                    IF h <= 23 /\ m <= 59 /\ s <= 59
                    THEN [kind |-> "num", hours |-> h, minutes |-> m, seconds |-> s]
                    ELSE [kind |-> "nan", hours |-> 0, minutes |-> 0, seconds |-> 0]
            IN  IF wellFormed
                THEN Fields(IntVal(parts[1]), IntVal(parts[2]),
                            IF Len(parts) = 3 THEN IntVal(parts[3]) ELSE 0)
                ELSE [kind |-> "nan", hours |-> 0, minutes |-> 0, seconds |-> 0]
    IN  Time(Split(Trim(timeStr), ":"))

Thrown(message) == [ok |-> FALSE, error |-> message, value |-> NaN]

Returned(v) == [ok |-> TRUE, error |-> "", value |-> v]

parseDateDDMMYYYY(dateStr, timeStr) ==
    LET Final(finalDate) ==
            IF IsNaN(finalDate) THEN Thrown("Cannot create valid date")
            ELSE Returned(finalDate)
        Fields(day, monthRaw, year, tempDate) ==
            IF IsNaN(day) \/ IsNaN(monthRaw) \/ IsNaN(year) THEN Thrown("Invalid date values")
            ELSE IF tempDate.kind = "nan" THEN Thrown("Invalid time format")
            ELSE Final(MakeDate(year.val, monthRaw.val - 1, day.val,
                                tempDate.hours, tempDate.minutes, tempDate.seconds))
        Parts(dateParts) ==
            IF Len(dateParts) # 3 THEN Thrown("Invalid date format. Expected DD/MM/YYYY")
            ELSE Fields(ParseInt(dateParts[1]), ParseInt(dateParts[2]),
                        ParseInt(dateParts[3]), ParseTime(timeStr))
    IN  Parts(Split(Trim(dateStr), "/"))

(***************************************************************************)
(* validateCSV                                                             *)
(***************************************************************************)
EXPECTED_HEADERS ==
    <<"Date", "Time", "Title", "Duration (seconds)", "Rating", "Comment", "Tag", "State">>

VALID_STATES == <<"active", "completed", "aborted", "paused", "not_started">>

Includes(seq, x) == \E k \in 1..Len(seq) : seq[k] = x

\* Faulty variant of IsLiveState: paused is forgotten
IsActiveState(state) == state = "active"

\* state === "active" || state === "paused": the test validateCSV and the row
\* loop of importSessionsFromCSV both make, in the same words
IsLiveState(state) == state = "active" \/ state = "paused"

\* The message `Row ${rowNumber}: ${message}`, kept as its two parts
RowError(rowNumber, message) == [row |-> rowNumber, error |-> message]

If(cond, error) == IF cond THEN <<error>> ELSE <<>>

\* The body of dataRows.forEach in validateCSV: the errors one row adds
ValidateRow(row, rowNumber) ==
    LET date == row[1]
        time == row[2]
        title == row[3]
        state == row[8]
        Checks(durationNum, ratingNum, parsed) ==
            If(Len(Trim(date)) = 0, RowError(rowNumber, "Date is required"))
            \o If(Len(Trim(time)) = 0, RowError(rowNumber, "Time is required"))
            \o If(Len(Trim(title)) = 0, RowError(rowNumber, "Title is required"))
            \o If(IsNaN(durationNum) \/ LessThanZero(durationNum),
                  RowError(rowNumber, "Duration must be a non-negative number"))
            \o If(IsNaN(ratingNum) \/ LessThanZero(ratingNum) \/ GreaterThan(ratingNum, 5000),
                  RowError(rowNumber, "Rating must be a number between 0 and 5"))
            \o If(~Includes(VALID_STATES, state), RowError(rowNumber, "Invalid state"))
            \o If(~parsed.ok, RowError(rowNumber, "Cannot parse date/time. " \o parsed.error))
            \o If(IsLiveState(state),
                  RowError(rowNumber, "Cannot import active or paused sessions"))
    IN  IF Len(row) # Len(EXPECTED_HEADERS)
        THEN <<RowError(rowNumber, "Expected 8 columns")>>
        ELSE Checks(ParseFloat(row[4]), ParseFloat(row[5]), parseDateDDMMYYYY(date, time))

\* Faulty variant of Flatten: the errors of the first row alone
FirstOnly(seqs) == IF Len(seqs) = 0 THEN <<>> ELSE Head(seqs)

RECURSIVE Flatten(_)
Flatten(seqs) == IF Len(seqs) = 0 THEN <<>> ELSE Head(seqs) \o Flatten(Tail(seqs))

Invalid(errors) == [isValid |-> FALSE, errors |-> errors, warnings |-> <<>>, sessionCount |-> 0]

\* Faulty variant of MissingHeaders: the cells of the header are not compared
MissingHeadersUnread(headers) == <<>>

\* EXPECTED_HEADERS.filter((expected, index) => headers[index] !== expected),
\* as the indexes of the headers it keeps
MissingHeaders(headers) ==
    SelectSeq([k \in 1..Len(EXPECTED_HEADERS) |-> k],
              LAMBDA k : k > Len(headers) \/ headers[k] # EXPECTED_HEADERS[k])

validateCSV(text) ==
    LET Rows(rows) ==
            LET headers == rows[1]
                dataRows == Tail(rows)
                missingHeaders == MissingHeaders(headers)
                Verdict(headerErrors, errors) ==
                    IF Len(headerErrors) > 0 THEN Invalid(headerErrors)
                    ELSE IF Len(dataRows) = 0
                    THEN Invalid(<<RowError(0, "CSV file contains no data rows (only headers)")>>)
                    ELSE [isValid |-> Len(errors) = 0, errors |-> errors, warnings |-> <<>>,
                          sessionCount |-> Len(dataRows)]
            IN  IF Len(rows) = 0 THEN Invalid(<<RowError(0, "CSV file contains no data")>>)
                ELSE Verdict(
                        If(Len(headers) # Len(EXPECTED_HEADERS),
                           RowError(1, "Invalid header count"))
                        \o If(Len(missingHeaders) > 0,
                              RowError(1, "Invalid or missing headers")),
                        Flatten([k \in 1..Len(dataRows) |->
                                    ValidateRow(dataRows[k], k + 1)]))
    IN  IF Len(Trim(text)) = 0 THEN Invalid(<<RowError(0, "CSV file is empty")>>)
        ELSE Rows(ParseCSV(text))

(***************************************************************************)
(* The object stores                                                       *)
(***************************************************************************)
\* tag: null in a Session
NullTag == [null |-> TRUE]

COLOR_PALETTE ==
    <<"#767676", "#023E8A", "#276221",
      "#DC2626", "#EA580C", "#D97706", "#CA8A04", "#65A30D", "#16A34A", "#059669",
      "#0891B2", "#0284C7", "#2563EB", "#4F46E5", "#7C3AED", "#9333EA", "#C026D3",
      "#DB2777", "#E11D48", "#475569", "#64748B", "#78716C", "#A8A29E", "#EF4444",
      "#F97316">>

Tag(name, color, when) ==
    [name |-> name, color |-> color, dateCreated |-> when, dateLastUsed |-> when,
     totalInstances |-> 0]

\* new Date("2026-01-01").getTime()
DefaultTagsTimestamp == MakeDate(2026, 0, 1, 0, 0, 0).val

\* The tags store as initializeDefaultTags leaves an empty one
DefaultTags ==
    LET defaults == <<"routine", "sleep", "work">>
    IN  [name \in {defaults[k] : k \in 1..3} |->
            Tag(name, COLOR_PALETTE[CHOOSE k \in 1..3 : defaults[k] = name],
                DefaultTagsTimestamp)]

\* store.put(record) on a store keyed by key
Put(store, key, record) ==
    [k \in DOMAIN store \cup {key} |-> IF k = key THEN record ELSE store[k]]

\* store.getAll()
GetAll(store) == {store[k] : k \in DOMAIN store}

\* Faulty variant of getAllSessions: only the completed sessions are returned
getCompletedSessions(store) == {s \in GetAll(store) : s.state = "completed"}

\* getAllSessions(): every record of the sessions store
getAllSessions(store) == GetAll(store)

\* The records the by_state index returns for "active" and for "paused"
LiveSessions(store) == {s \in GetAll(store) : s.state = "active" \/ s.state = "paused"}

\* Faulty variant of saveSession: only the sessions indexed under "active"
\* are looked up, the paused ones are forgotten
saveSessionActiveOnly(store, session, fault) ==
    IF (session.state = "active" \/ session.state = "paused")
       /\ {s \in GetAll(store) : s.state = "active" /\ s.id # session.id} # {}
    THEN [ok |-> FALSE, sessions |-> store,
          error |-> "Another session is already active or paused. Only one active session allowed."]
    ELSE IF fault
    THEN [ok |-> FALSE, sessions |-> store, error |-> "put request failed"]
    ELSE [ok |-> TRUE, sessions |-> Put(store, session.id, session), error |-> ""]

\* saveSession(session) run to completion on the sessions store; fault says
\* that the put request ends in onerror
saveSession(store, session, fault) ==
    IF (session.state = "active" \/ session.state = "paused")
       /\ {s \in LiveSessions(store) : s.id # session.id} # {}
    THEN [ok |-> FALSE, sessions |-> store,
          error |-> "Another session is already active or paused. Only one active session allowed."]
    ELSE IF fault
    THEN [ok |-> FALSE, sessions |-> store, error |-> "put request failed"]
    ELSE [ok |-> TRUE, sessions |-> Put(store, session.id, session), error |-> ""]

\* getAllTags(): every record of the tags store
getAllTags(store) == GetAll(store)

\* The null a function returns in place of a color
NoColor == ""

\* getAvailableColors(): the palette without the colors of the stored tags,
\* in palette order
getAvailableColors(store) ==
    LET Free(usedColors) == SelectSeq(COLOR_PALETTE, LAMBDA color : color \notin usedColors)
    IN  Free({tag.color : tag \in getAllTags(store)})

\* getNextAvailableColor(): the first available color, or null
getNextAvailableColor(store) ==
    LET First(availableColors) ==
            IF Len(availableColors) > 0 THEN availableColors[1] ELSE NoColor
    IN  First(getAvailableColors(store))

\* Faulty variant of saveTag: the tags store has no unique index on color
saveTagNoIndex(store, tag, fault) ==
    IF fault
    THEN [ok |-> FALSE, tags |-> store, error |-> "put request failed"]
    ELSE [ok |-> TRUE, tags |-> Put(store, tag.name, tag), error |-> ""]

\* saveTag(tag): store.put(tag) on the tags store, keyed by name, whose index
\* by_color is unique: the put fails with a ConstraintError when a record
\* under another name has the color; fault says that the request fails
saveTag(store, tag, fault) ==
    IF \E name \in DOMAIN store : name # tag.name /\ store[name].color = tag.color
    THEN [ok |-> FALSE, tags |-> store, error |-> "ConstraintError"]
    ELSE IF fault
    THEN [ok |-> FALSE, tags |-> store, error |-> "put request failed"]
    ELSE [ok |-> TRUE, tags |-> Put(store, tag.name, tag), error |-> ""]

\* deleteTag(name): store.delete(name)
deleteTag(store, name) == [k \in DOMAIN store \ {name} |-> store[k]]

\* getTag(name): the record stored under name, or null
getTag(store, name) == IF name \in DOMAIN store THEN store[name] ELSE NullTag

(***************************************************************************)
(* importSessionsFromCSV                                                   *)
(***************************************************************************)
\* The body of the row loop for dataRows[i + 1], whose rowNumber is i + 2; acc
\* holds the loop's variables, the sessions store, the id source and the log
\* of the store calls made so far.
\* Faulty variant of Has: the set is asked for a freshly built Date object,
\* which no set of numbers holds
HasByIdentity(set, value) == FALSE

\* existingTimestamps.has(timestamp)
Has(set, value) == value \in set

ImportRow(acc, row, rowNumber, existingTimestamps, tagStore, writeFails) ==
    LET title == row[3]
        tagName == row[7]
        state == row[8]
        Saved(session, saved, warnings, calls) ==
            IF ~saved.ok
            THEN [acc EXCEPT !.failedRows =
                        Append(@, [rowNumber |-> rowNumber, error |-> saved.error]),
                     !.warnings = warnings,
                     !.calls = Append(calls, [op |-> "saveSession", row |-> rowNumber,
                                              session |-> session, ok |-> FALSE]),
                     !.nextId = @ + 1]
            ELSE [acc EXCEPT !.sessions = saved.sessions,
                             !.successCount = @ + 1,
                             !.warnings = warnings,
                             !.calls = Append(calls, [op |-> "saveSession", row |-> rowNumber,
                                                      session |-> session, ok |-> TRUE]),
                             !.nextId = @ + 1]
        Built(session, warnings, calls) ==
            Saved(session, saveSession(acc.sessions, session, rowNumber \in writeFails),
                  warnings, calls)
        Tagged(timestamp, tag, warnings, calls) ==
            Built([id |-> acc.nextId,
                   title |-> Trim(title),
                   duration |-> ParseFloat(row[4]).val,
                   rating |-> ParseFloat(row[5]).val,
                   comment |-> Trim(row[6]),
                   timestamp |-> timestamp,
                   state |-> state,
                   tag |-> tag],
                  warnings, calls)
        Looked(timestamp, name, tag) ==
            Tagged(timestamp, tag,
                   IF tag = NullTag
                   THEN Append(acc.warnings,
                               RowError(rowNumber,
                                        "Tag not found. Session will be imported without tag."))
                   ELSE acc.warnings,
                   Append(acc.calls, [op |-> "getTag", row |-> rowNumber, name |-> name]))
        Named(timestamp, name) ==
            IF Len(name) > 0
            THEN Looked(timestamp, name, getTag(tagStore, name))
            ELSE Tagged(timestamp, NullTag, acc.warnings, acc.calls)
        Parsed(parsed) ==
            IF ~parsed.ok
            THEN [acc EXCEPT !.failedRows =
                    Append(@, [rowNumber |-> rowNumber, error |-> parsed.error])]
            ELSE IF Has(existingTimestamps, parsed.value.val)
            THEN [acc EXCEPT !.duplicateRows =
                    Append(@, [rowNumber |-> rowNumber, timestamp |-> parsed.value.val,
                               title |-> Trim(title)])]
            ELSE Named(parsed.value.val, Trim(tagName))
    IN  IF IsLiveState(state)
        THEN [acc EXCEPT !.failedRows =
                Append(@, [rowNumber |-> rowNumber,
                           error |-> "Cannot import active or paused sessions"])]
        ELSE Parsed(parseDateDDMMYYYY(row[1], row[2]))

\* Faulty variant of ImportRows: the try is around the loop, so the first
\* row that fails ends the loop
RECURSIVE ImportRowsUntilFailure(_, _, _, _, _, _)
ImportRowsUntilFailure(acc, dataRows, i, existingTimestamps, tagStore, writeFails) ==
    LET Continue(next) ==
            IF Len(next.failedRows) = Len(acc.failedRows)
            THEN ImportRowsUntilFailure(next, dataRows, i + 1, existingTimestamps,
                                        tagStore, writeFails)
            ELSE next
    IN  IF i >= Len(dataRows) THEN acc
        ELSE Continue(ImportRow(acc, dataRows[i + 1], i + 2, existingTimestamps,
                                tagStore, writeFails))

\* Faulty variant of ImportRows: every row the loop walks through is counted
\* as imported
RECURSIVE ImportRowsCountingAll(_, _, _, _, _, _)
ImportRowsCountingAll(acc, dataRows, i, existingTimestamps, tagStore, writeFails) ==
    LET Continue(next) ==
            ImportRowsCountingAll([next EXCEPT !.successCount = acc.successCount + 1],
                                  dataRows, i + 1, existingTimestamps, tagStore, writeFails)
    IN  IF i >= Len(dataRows) THEN acc
        ELSE Continue(ImportRow(acc, dataRows[i + 1], i + 2, existingTimestamps,
                                tagStore, writeFails))

\* The loop over dataRows from index i on
RECURSIVE ImportRows(_, _, _, _, _, _)
ImportRows(acc, dataRows, i, existingTimestamps, tagStore, writeFails) ==
    LET Continue(next) ==
            IF next.successCount >= 0
            THEN ImportRows(next, dataRows, i + 1, existingTimestamps, tagStore, writeFails)
            ELSE next
    IN  IF i >= Len(dataRows) THEN acc
        ELSE Continue(ImportRow(acc, dataRows[i + 1], i + 2, existingTimestamps,
                                tagStore, writeFails))

\* Faulty variant of Rejected: the stored sessions are read before the
\* validation is looked at
RejectedAfterRead(validation, sessionStore, firstId) ==
    [result |-> [isValid |-> validation.isValid,
                 errors |-> validation.errors,
                 warnings |-> validation.warnings,
                 sessionCount |-> validation.sessionCount,
                 successCount |-> 0, failedCount |-> 0, failedRows |-> <<>>,
                 duplicatesSkipped |-> 0, duplicateRows |-> <<>>],
     sessions |-> sessionStore, nextId |-> firstId,
     calls |-> <<[op |-> "getAllSessions"]>>]

\* The early return of importSessionsFromCSV for a file validateCSV rejects:
\* the validation with the counters at zero; no store call has been made
Rejected(validation, sessionStore, firstId) ==
    [result |-> [isValid |-> validation.isValid,
                 errors |-> validation.errors,
                 warnings |-> validation.warnings,
                 sessionCount |-> validation.sessionCount,
                 successCount |-> 0, failedCount |-> 0, failedRows |-> <<>>,
                 duplicatesSkipped |-> 0, duplicateRows |-> <<>>],
     sessions |-> sessionStore, nextId |-> firstId, calls |-> <<>>]

\* importSessionsFromCSV(text) run to completion: the ImportResult it resolves
\* to, the sessions store it leaves, and the store calls it made in order
importSessionsFromCSV(text, sessionStore, tagStore, firstId, writeFails) ==
    LET Done(dataRows, done) ==
            [result |-> [isValid |-> TRUE,
                         errors |-> <<>>,
                         warnings |-> done.warnings,
                         sessionCount |-> Len(dataRows),
                         successCount |-> done.successCount,
                         failedCount |-> Len(done.failedRows),
                         failedRows |-> done.failedRows,
                         duplicatesSkipped |-> Len(done.duplicateRows),
                         duplicateRows |-> done.duplicateRows],
             sessions |-> done.sessions, nextId |-> done.nextId, calls |-> done.calls]
        Loop(validation, existingSessions, dataRows) ==
            Done(dataRows,
                 ImportRows([sessions |-> sessionStore, successCount |-> 0,
                             failedRows |-> <<>>, duplicateRows |-> <<>>,
                             warnings |-> validation.warnings,
                             calls |-> <<[op |-> "getAllSessions"]>>,
                             nextId |-> firstId],
                            dataRows, 0,
                            {session.timestamp : session \in existingSessions},
                            tagStore, writeFails))
        Validated(validation) ==
            IF ~validation.isValid
            THEN Rejected(validation, sessionStore, firstId)
            ELSE Loop(validation, getAllSessions(sessionStore), Tail(ParseCSV(text)))
    IN  Validated(validateCSV(text))

(***************************************************************************)
(* The files and the stores the import is run on                           *)
(***************************************************************************)
MaxRows == 2        \* data rows of a generated file

MaxImports == 2     \* import calls in one behaviour

MaxFaults == 1      \* store writes that fail in one behaviour

Header == "Date,Time,Title,Duration (seconds),Rating,Comment,Tag,State"

BadHeader == "Date,Time,Title,Duration,Rating,Comment,Tag,State"

RowFitness == "27/01/2026,09:00:00,Morning workout,3600,4,Great cardio,fitness,completed"

RowSameTime == "27/1/2026,9:00, B ,1.5,5,,work,aborted"

RowAfternoon == "27/01/2026,14:30:00,Afternoon session,5400,4,Unique session,work,completed"

RowQuoted == "28/01/2026,18:00:00,\"a,b\",60,3,\"say \"\"hi\"\"\",,not_started"

RowActive == "27/01/2026,18:00:00,Evening,60,3,,,active"

RowPaused == "27/01/2026,20:00:00,Night,60,3,,,paused"

RowBadRating == "27/01/2026,18:00:00,Evening,60,6,,,completed"

RowShort == "27/01/2026,18:00:00,Evening"

DataLines == {RowFitness, RowSameTime, RowAfternoon, RowPaused, RowBadRating}

\* test-import-duplicates.csv of DUPLICATE_DETECTION.md
TestImportDuplicates ==
    Header
    \o "\n27/01/2026,09:00:00,Morning workout,3600,4,First occurrence,routine,completed"
    \o "\n27/01/2026,09:00:00,Morning workout DUPLICATE,3600,5,Should be skipped,routine,completed"
    \o "\n27/01/2026,14:30:00,Afternoon session,5400,4,Unique session,work,completed"
    \o "\n27/01/2026,14:30:00,Afternoon DUPLICATE,5400,3,Should be skipped,work,completed"
    \o "\n27/01/2026,18:00:00,Evening session,7200,5,Unique session,sleep,completed"

RECURSIVE JoinLines(_)
JoinLines(lines) ==
    IF Len(lines) = 0 THEN "" ELSE "\n" \o Head(lines) \o JoinLines(Tail(lines))

Contents ==
    {"", " \n ", BadHeader \o "\n" \o RowFitness, TestImportDuplicates,
     Header \o "\n" \o RowQuoted, Header \o "\n" \o RowActive,
     Header \o "\n" \o RowFitness \o "\n" \o RowShort}
    \cup {Header \o JoinLines(rows) : rows \in UNION {[1..n -> DataLines] : n \in 0..MaxRows}}

\* 27/01/2026 09:00:00 and 28/01/2026 18:00:00
T0 == MakeDate(2026, 0, 27, 9, 0, 0).val

T1 == MakeDate(2026, 0, 28, 18, 0, 0).val

SessionA ==
    [id |-> 1, title |-> "A", duration |-> 60000, rating |-> 2000, comment |-> "kept",
     timestamp |-> T0, state |-> "completed", tag |-> DefaultTags["routine"]]

SessionRunning ==
    [id |-> 2, title |-> "", duration |-> 0, rating |-> 0, comment |-> "",
     timestamp |-> T1, state |-> "active", tag |-> NullTag]

StoreOf(records) == [id \in {r.id : r \in records} |-> CHOOSE r \in records : r.id = id]

InitialSessionStores == {StoreOf({}), StoreOf({SessionA}), StoreOf({SessionA, SessionRunning})}

Idle == [p \in {} |-> "idle"]

\* The number of store writes made to fail by the imports of h
RECURSIVE FaultCount(_)
FaultCount(h) ==
    IF Len(h) = 0 THEN 0 ELSE Cardinality(Head(h).writeFails) + FaultCount(Tail(h))

\* The rows whose write may be made to fail: row numbers of the data rows of
\* a file that passes validation, as many as the behaviour has faults left
FaultSets(text, used) ==
    LET Rows(validation) ==
            IF validation.isValid THEN 2..(validation.sessionCount + 1) ELSE {}
    IN  {f \in SUBSET Rows(validateCSV(text)) : Cardinality(f) + used <= MaxFaults}

\* Faulty variant of TagsAfterSave: the tag of a completed session is
\* counted as used once more
TagsAfterSaveCounted(tagStore, session) ==
    IF /\ session.state = "completed"
       /\ session.tag # NullTag
       /\ session.tag.name \in DOMAIN tagStore
    THEN [tagStore EXCEPT ![session.tag.name].totalInstances = @ + 1,
                          ![session.tag.name].dateLastUsed = session.timestamp]
    ELSE tagStore

\* The tags store after saveSession(session), whose transactions are on the
\* sessions store alone
TagsAfterSave(tagStore, session) == tagStore

\* The tags store after the store calls of an import: getAllSessions and
\* getTag read, saveSession writes
RECURSIVE TagsAfterCalls(_, _)
TagsAfterCalls(tagStore, calls) ==
    IF Len(calls) = 0 THEN tagStore
    ELSE IF Head(calls).op = "saveSession" /\ Head(calls).ok
    THEN TagsAfterCalls(TagsAfterSave(tagStore, Head(calls).session), Tail(calls))
    ELSE TagsAfterCalls(tagStore, Tail(calls))

(***************************************************************************)
(* The import specification: the user imports one file, again and again    *)
(***************************************************************************)
Init ==
    /\ content \in Contents
    /\ sessions \in InitialSessionStores
    /\ tags = DefaultTags
    /\ nextId = 3
    /\ history = <<>>
    /\ clock = 0
    /\ pc = Idle
    /\ pending = Idle

Import ==
    /\ Len(history) < MaxImports
    /\ \E writeFails \in FaultSets(content, FaultCount(history)) :
        \E out \in {importSessionsFromCSV(content, sessions, tags, nextId, writeFails)} :
            /\ sessions' = out.sessions
            /\ tags' = TagsAfterCalls(tags, out.calls)
            /\ nextId' = out.nextId
            /\ history' = Append(history,
                    [op |-> "import", content |-> content, writeFails |-> writeFails,
                     preSessions |-> sessions, preTags |-> tags,
                     postSessions |-> out.sessions, postTags |-> tags',
                     result |-> out.result, calls |-> out.calls])
    /\ UNCHANGED <<content, clock, pc, pending>>

Next == Import

Spec == Init /\ [][Next]_vars

(***************************************************************************)
(* Properties of the import                                                *)
(***************************************************************************)
Calls == 1..Len(history)

\* The data rows the import of a valid file walks through
DataRowsOf(text) == Tail(ParseCSV(text))

TimestampsOf(store) == {store[id].timestamp : id \in DOMAIN store}

\* Both imports of the pair k - 1, k ran on a file that passed validation and
\* had every store write succeed
CleanPair(k) ==
    /\ k \in Calls /\ k - 1 \in Calls
    /\ history[k - 1].result.isValid /\ history[k].result.isValid
    /\ history[k - 1].writeFails = {} /\ history[k].writeFails = {}

\* t is cell without the white space at its two ends
IsTrimmed(cell, t) ==
    /\ Len(t) > 0 => Ch(t, 1) \notin Whitespace /\ Ch(t, Len(t)) \notin Whitespace
    /\ \E i \in 1..(Len(cell) + 1) :
        /\ SubSeq(cell, i, i + Len(t) - 1) = t
        /\ \A j \in 1..Len(cell) : (j < i \/ j > i + Len(t) - 1) => Ch(cell, j) \in Whitespace

\* C1: after any sequence of imports on a store whose sessions start with
\* pairwise distinct timestamps, no two stored sessions share a timestamp,
\* also when one file has several rows with the same date and time.
C1_NoSharedTimestamp ==
    \A a, b \in DOMAIN sessions : a # b => sessions[a].timestamp # sessions[b].timestamp

\* C2 as the specification states it: the second of two imports of one valid
\* file, no write failing, has 0 successes and as many duplicates as the first
\* import had successes, and leaves both stores as it found them.
C2_SecondRunCountsFirstSuccesses ==
    \A k \in Calls :
        CleanPair(k) =>
            /\ history[k].result.successCount = 0
            /\ history[k].result.duplicatesSkipped = history[k - 1].result.successCount
            /\ history[k].postSessions = history[k].preSessions
            /\ history[k].postTags = history[k].preTags

\* C2 amended: the second of two imports of one valid file, no write failing,
\* has 0 successes and reports every data row as a duplicate, which is the
\* first import's successes plus the first import's duplicates, and leaves
\* both stores as it found them.
C2_SecondRunAllDuplicates ==
    \A k \in Calls :
        CleanPair(k) =>
            /\ history[k].result.successCount = 0
            /\ history[k].result.duplicatesSkipped = history[k].result.sessionCount
            /\ history[k].result.duplicatesSkipped =
                    history[k - 1].result.successCount
                    + history[k - 1].result.duplicatesSkipped
            /\ history[k].postSessions = history[k].preSessions
            /\ history[k].postTags = history[k].preTags

\* A file imported twice whose first import wrote one row and skipped another
C2_Witness ==
    \E k \in Calls :
        /\ CleanPair(k)
        /\ history[k - 1].result.successCount > 0
        /\ history[k - 1].result.duplicatesSkipped > 0
        /\ history[k].result.duplicatesSkipped = 2

\* C3: in an import that passes validation, a row that parses to the
\* timestamp T of a stored session leaves every stored session at T as it
\* was, is not written (no saveSession call is made for it), and appears as
\* exactly one duplicate with its row number, T and its trimmed title.
C3_ExistingDataWins ==
    \A k \in Calls :
        history[k].result.isValid =>
            \E rows \in {DataRowsOf(history[k].content)} :
            \A i \in 1..Len(rows) :
                \E parsed \in {parseDateDDMMYYYY(rows[i][1], rows[i][2])} :
                    (parsed.ok /\ parsed.value.val \in TimestampsOf(history[k].preSessions)) =>
                        /\ \A id \in DOMAIN history[k].preSessions :
                                history[k].preSessions[id].timestamp = parsed.value.val =>
                                    /\ id \in DOMAIN history[k].postSessions
                                    /\ history[k].postSessions[id] = history[k].preSessions[id]
                        /\ \A c \in 1..Len(history[k].calls) :
                                history[k].calls[c].op = "saveSession" =>
                                    history[k].calls[c].row # i + 1
                        /\ Cardinality({d \in 1..Len(history[k].result.duplicateRows) :
                                history[k].result.duplicateRows[d].rowNumber = i + 1}) = 1
                        /\ \A d \in 1..Len(history[k].result.duplicateRows) :
                                history[k].result.duplicateRows[d].rowNumber = i + 1 =>
                                    /\ history[k].result.duplicateRows[d].timestamp
                                            = parsed.value.val
                                    /\ IsTrimmed(rows[i][3],
                                                 history[k].result.duplicateRows[d].title)

\* The stored session A at 27/01/2026 09:00 met the row titled " B " of the
\* same time: A is still stored and B is listed as a duplicate
C3_Witness ==
    \E k \in Calls :
        /\ 1 \in DOMAIN history[k].preSessions
        /\ history[k].preSessions[1] = SessionA
        /\ history[k].postSessions[1].title = "A"
        /\ \E d \in 1..Len(history[k].result.duplicateRows) :
                /\ history[k].result.duplicateRows[d].title = "B"
                /\ history[k].result.duplicateRows[d].timestamp = T0

\* C4: of several rows of one file with the same date and time, none of it
\* stored yet, only the first is imported and each later one is a skipped
\* duplicate: the file with rows at 09:00, 09:00, 14:30, 14:30 and 18:00,
\* imported into an empty store, gives successCount 3 and duplicatesSkipped 2.
C4_InFileDuplicatesSkipped ==
    \A k \in Calls :
        (/\ history[k].content = TestImportDuplicates
         /\ history[k].preSessions = StoreOf({})
         /\ history[k].writeFails = {}) =>
            /\ history[k].result.successCount = 3
            /\ history[k].result.duplicatesSkipped = 2

\* C5: when validateCSV rejects the file, the import makes no store call,
\* returns successCount 0 with the errors of validateCSV, and leaves the
\* sessions and the tags store as they were.
C5_InvalidIsNoOp ==
    \A k \in Calls :
        \E validation \in {validateCSV(history[k].content)} :
            ~validation.isValid =>
                /\ history[k].calls = <<>>
                /\ ~history[k].result.isValid
                /\ history[k].result.successCount = 0
                /\ history[k].result.errors = validation.errors
                /\ Len(history[k].result.errors) > 0
                /\ history[k].postSessions = history[k].preSessions
                /\ history[k].postTags = history[k].preTags

\* A file with a good row and a row whose rating is 6 was imported and
\* rejected
C5_Witness ==
    \E k \in Calls :
        /\ history[k].content = Header \o JoinLines(<<RowFitness, RowBadRating>>)
        /\ ~history[k].result.isValid
        /\ history[k].result.errors =
                <<RowError(3, "Rating must be a number between 0 and 5")>>

\* C6: the import never calls saveSession with a session that is active or
\* paused, and every session it adds to the store is completed, aborted or
\* not_started.
C6_NeverSavesLive ==
    \A k \in Calls :
        /\ \A c \in 1..Len(history[k].calls) :
                history[k].calls[c].op = "saveSession" =>
                    history[k].calls[c].session.state
                        \in {"completed", "aborted", "not_started"}
        /\ \A id \in DOMAIN history[k].postSessions \ DOMAIN history[k].preSessions :
                history[k].postSessions[id].state \in {"completed", "aborted", "not_started"}

\* An import wrote a session into a store that holds an active session
C6_Witness ==
    \E k \in Calls :
        /\ 2 \in DOMAIN history[k].preSessions
        /\ history[k].preSessions[2].state = "active"
        /\ \E c \in 1..Len(history[k].calls) :
                /\ history[k].calls[c].op = "saveSession"
                /\ history[k].calls[c].ok
                /\ history[k].calls[c].session.state = "completed"

\* C10: the row 27/01/2026,09:00:00,Morning workout,3600,4,Great
\* cardio,fitness,completed imported into a store with the 3 default tags
\* creates the tag fitness with color #DC2626 and totalInstances 0, and a
\* session of 3600000 ms whose tag is fitness.
C10_ImportCreatesTag ==
    \A k \in Calls :
        (/\ history[k].content = Header \o "\n" \o RowFitness
         /\ history[k].preSessions = StoreOf({})
         /\ history[k].preTags = DefaultTags
         /\ history[k].writeFails = {}) =>
            /\ "fitness" \in DOMAIN history[k].postTags
            /\ history[k].postTags["fitness"].color = "#DC2626"
            /\ history[k].postTags["fitness"].totalInstances = 0
            /\ \E id \in DOMAIN history[k].postSessions :
                    /\ history[k].postSessions[id].duration = 3600000
                    /\ history[k].postSessions[id].tag # NullTag
                    /\ history[k].postSessions[id].tag.name = "fitness"

(***************************************************************************)
(* The sessions specification: saveSession called again and again, each    *)
(* call run to completion, with any session the application can build      *)
(***************************************************************************)
MaxSessions == 2    \* session ids in use

SessionIds == 1..MaxSessions

States == {VALID_STATES[k] : k \in 1..Len(VALID_STATES)}

Live == {"active", "paused"}

SessionOf(id, state) ==
    [id |-> id, title |-> "", duration |-> 0, rating |-> 0, comment |-> "",
     timestamp |-> T0, state |-> state, tag |-> NullTag]

LiveIds(store) == {id \in DOMAIN store : store[id].state \in Live}

\* The stores with at most one session active or paused
SingleLiveStores ==
    {store \in UNION {[ids -> {SessionOf(id, state) : id \in ids, state \in States}] :
                        ids \in SUBSET SessionIds} :
        /\ \A id \in DOMAIN store : store[id].id = id
        /\ Cardinality(LiveIds(store)) <= 1}

InitSessions ==
    /\ sessions \in SingleLiveStores
    /\ history = <<>>
    /\ content = ""
    /\ tags = DefaultTags
    /\ nextId = 0
    /\ clock = 0
    /\ pc = Idle
    /\ pending = Idle

\* One call saveSession(session), run to completion; history keeps the last
\* call only
SaveSession ==
    /\ \E id \in SessionIds, state \in States, fault \in BOOLEAN :
        \E out \in {saveSession(sessions, SessionOf(id, state), fault)} :
            /\ sessions' = out.sessions
            /\ history' = <<[op |-> "saveSession", session |-> SessionOf(id, state),
                             fault |-> fault, preSessions |-> sessions,
                             postSessions |-> out.sessions, ok |-> out.ok,
                             error |-> out.error]>>
    /\ UNCHANGED <<content, tags, nextId, clock, pc, pending>>

NextSessions == SaveSession

SpecSessions == InitSessions /\ [][NextSessions]_vars

\* C7: from a store with at most one session active or paused, after any
\* sequence of saveSession calls each run to completion at most one stored
\* session is active or paused; a call with an active or paused session is
\* rejected with the error and writes nothing when a stored session of
\* another id is active or paused, and is accepted, its session stored, when
\* no stored session of another id is.
C7_SingleLiveSession ==
    /\ Cardinality(LiveIds(sessions)) <= 1
    /\ \A k \in Calls :
        history[k].session.state \in Live =>
            IF LiveIds(history[k].preSessions) \ {history[k].session.id} # {}
            THEN /\ ~history[k].ok
                 /\ history[k].error =
                        "Another session is already active or paused. Only one active session allowed."
                 /\ history[k].postSessions = history[k].preSessions
            ELSE ~history[k].fault =>
                    /\ history[k].ok
                    /\ history[k].postSessions[history[k].session.id] = history[k].session
                    /\ \A id \in DOMAIN history[k].preSessions \ {history[k].session.id} :
                            history[k].postSessions[id] = history[k].preSessions[id]

\* The call for an active session 1 was turned down because session 2 is
\* paused, and the store is as it was
C7_Witness ==
    \E k \in Calls :
        /\ history[k].session.state = "active"
        /\ LiveIds(history[k].preSessions) = {history[k].session.id + 1}
        /\ history[k].preSessions[history[k].session.id + 1].state = "paused"
        /\ ~history[k].ok
        /\ sessions = history[k].preSessions

(***************************************************************************)
(* The tags specification: TagSelector components that create tags, each   *)
(* handleCreateTag call suspended at its awaits, and tags being deleted    *)
(***************************************************************************)
MaxCallers == 2     \* TagSelector components open at once

Callers == 1..MaxCallers

\* searchQuery.trim().toLowerCase() of what the user typed
TypedNames == {"", "fitness", "study"}

\* The tags of a store that deleteTag is called for
DeletedNames == {"work"}

\* Date.now()
Now == [day |-> DefaultTagsTimestamp.day, ms |-> clock]

\* The tags store after the default tags and tags tag4 .. tag<n>, created one
\* after the other
PrefilledTags(n) ==
    [name \in DOMAIN DefaultTags \cup {"tag" \o ToString(k) : k \in 4..n} |->
        IF name \in DOMAIN DefaultTags THEN DefaultTags[name]
        ELSE Tag(name,
                 COLOR_PALETTE[CHOOSE k \in 4..n : name = "tag" \o ToString(k)],
                 DefaultTagsTimestamp)]

\* A store with the default tags only, and a store one tag short of the
\* palette
InitialTagStores == {PrefilledTags(n) : n \in {3, Len(COLOR_PALETTE) - 1}}

Closed == [loaded |-> {}, name |-> "", color |-> NoColor]

InitTags ==
    /\ tags \in InitialTagStores
    /\ pc = [c \in Callers |-> "closed"]
    /\ pending = [c \in Callers |-> Closed]
    /\ clock = 0
    /\ history = <<>>
    /\ content = ""
    /\ sessions = StoreOf({})
    /\ nextId = 0

\* The popover of TagSelector c opens: loadTags reads the tags
OpenSelector(c) ==
    /\ pc[c] = "closed"
    /\ pc' = [pc EXCEPT ![c] = "open"]
    /\ pending' = [pending EXCEPT ![c] = [Closed EXCEPT !.loaded = DOMAIN tags]]
    /\ UNCHANGED <<tags, clock, history, content, sessions, nextId>>

\* handleCreateTag of TagSelector c up to the end of its
\* await getNextAvailableColor()
HandleCreateTag(c) ==
    /\ pc[c] = "open"
    /\ \E name \in TypedNames :
        IF name = ""
        THEN /\ history' = <<[op |-> "createTag", caller |-> c, name |-> name,
                              color |-> NoColor, ok |-> FALSE,
                              error |-> "Tag name cannot be empty"]>>
             /\ UNCHANGED <<pc, pending>>
        ELSE IF name \in pending[c].loaded
        THEN /\ history' = <<[op |-> "selectTag", caller |-> c, name |-> name,
                              color |-> NoColor, ok |-> TRUE, error |-> ""]>>
             /\ pc' = [pc EXCEPT ![c] = "closed"]
             /\ pending' = [pending EXCEPT ![c] = Closed]
        ELSE \E color \in {getNextAvailableColor(tags)} :
            IF color = NoColor
            THEN /\ history' = <<[op |-> "createTag", caller |-> c, name |-> name,
                                  color |-> NoColor, ok |-> FALSE,
                                  error |-> "Maximum number of tags reached (24)"]>>
                 /\ UNCHANGED <<pc, pending>>
            ELSE /\ pc' = [pc EXCEPT ![c] = "save"]
                 /\ pending' = [pending EXCEPT ![c].name = name, ![c].color = color]
                 /\ history' = <<[op |-> "getNextAvailableColor", caller |-> c,
                                  name |-> name, color |-> color, ok |-> TRUE,
                                  error |-> ""]>>
    /\ UNCHANGED <<tags, clock, content, sessions, nextId>>

\* The rest of handleCreateTag of TagSelector c: the tag is built and saved,
\* and the popover closes when the save succeeded
SaveNewTag(c) ==
    /\ pc[c] = "save"
    /\ \E fault \in BOOLEAN :
        \E out \in {saveTag(tags, Tag(pending[c].name, pending[c].color, Now), fault)} :
            /\ tags' = out.tags
            /\ pc' = [pc EXCEPT ![c] = IF out.ok THEN "closed" ELSE "open"]
            /\ pending' = [pending EXCEPT ![c] =
                                IF out.ok THEN Closed
                                ELSE [@ EXCEPT !.name = "", !.color = NoColor]]
            /\ history' = <<[op |-> "createTag", caller |-> c, name |-> pending[c].name,
                             color |-> pending[c].color, ok |-> out.ok,
                             error |-> IF out.ok THEN "" ELSE "Failed to create tag"]>>
    /\ UNCHANGED <<clock, content, sessions, nextId>>

\* The popover of TagSelector c closes without a tag being created
CloseSelector(c) ==
    /\ pc[c] = "open"
    /\ pc' = [pc EXCEPT ![c] = "closed"]
    /\ pending' = [pending EXCEPT ![c] = Closed]
    /\ UNCHANGED <<tags, clock, history, content, sessions, nextId>>

\* deleteTag(name) for a stored tag
DeleteTag ==
    /\ \E name \in DeletedNames \cap DOMAIN tags :
        /\ tags' = deleteTag(tags, name)
        /\ history' = <<[op |-> "deleteTag", caller |-> 0, name |-> name,
                         color |-> tags[name].color, ok |-> TRUE, error |-> ""]>>
    /\ UNCHANGED <<pc, pending, clock, content, sessions, nextId>>

NextTags ==
    \/ \E c \in Callers : OpenSelector(c)
    \/ \E c \in Callers : HandleCreateTag(c)
    \/ \E c \in Callers : SaveNewTag(c)
    \/ \E c \in Callers : CloseSelector(c)
    \/ DeleteTag

SpecTags == InitTags /\ [][NextTags]_vars

(***************************************************************************)
(* Properties of the tags store                                            *)
(***************************************************************************)
UsedColors(store) == {store[name].color : name \in DOMAIN store}

\* color is the first color of the palette that no tag of store has
IsFirstFree(color, store) ==
    \E k \in 1..Len(COLOR_PALETTE) :
        /\ COLOR_PALETTE[k] = color
        /\ color \notin UsedColors(store)
        /\ \A j \in 1..(k - 1) : COLOR_PALETTE[j] \in UsedColors(store)

\* C8: after any sequence of tag creations and deletions the tags store holds
\* at most 24 tags.
C8_AtMost24Tags == Cardinality(DOMAIN tags) <= 24

\* C9: no two stored tags ever have the same color; the color a creation
\* takes is the first palette color no stored tag has at the time it is
\* read, and the tag is stored with that color; all of it also when several
\* creations are between reading the color and saving the tag.
C9_UniqueColors ==
    /\ [](\A a, b \in DOMAIN tags : a # b => tags[a].color # tags[b].color)
    /\ [][\A c \in Callers :
            (pc[c] = "open" /\ pc'[c] = "save") => IsFirstFree(pending'[c].color, tags)]_vars
    /\ [][\A name \in DOMAIN tags' \ DOMAIN tags :
            \E c \in Callers :
                /\ pc[c] = "save"
                /\ pending[c].name = name
                /\ tags'[name].color = pending[c].color]_vars

\* Two creations read the same color for two names; one tag is stored with
\* it, and the save of the other has just failed
C9_Witness ==
    /\ history # <<>>
    /\ history[1].op = "createTag"
    /\ ~history[1].ok
    /\ history[1].error = "Failed to create tag"
    /\ \E name \in DOMAIN tags :
            /\ name # history[1].name
            /\ name \in TypedNames
            /\ tags[name].color = history[1].color

(***************************************************************************)
(* The import run on a tags store that has no color, or one color, left    *)
(***************************************************************************)
RowStudy == "29/01/2026,10:00:00,Reading,1800,5,,study,completed"

TaggedLines == {RowFitness, RowStudy, RowAfternoon}

TaggedContents ==
    {Header \o JoinLines(rows) : rows \in UNION {[1..n -> TaggedLines] : n \in 1..MaxRows}}

\* The tags store with one palette color free, and with none
NearlyFullTagStores ==
    {PrefilledTags(n) : n \in {Len(COLOR_PALETTE) - 1, Len(COLOR_PALETTE)}}

InitFullPalette ==
    /\ content \in TaggedContents
    /\ sessions \in InitialSessionStores
    /\ tags \in NearlyFullTagStores
    /\ nextId = 3
    /\ history = <<>>
    /\ clock = 0
    /\ pc = Idle
    /\ pending = Idle

NextFullPalette == Import

SpecFullPalette == InitFullPalette /\ [][NextFullPalette]_vars

\* The trimmed, non-empty tag names of the data rows of text that store has
\* no tag for
NewTagNames(text, store) ==
    LET Names(rows) == {Trim(rows[i][7]) : i \in 1..Len(rows)}
    IN  (Names(DataRowsOf(text)) \ {""}) \ DOMAIN store

\* C11: an import of a valid file that names more new tags than the tags
\* store has palette colors left fails as a whole: it reports no success,
\* and it leaves the sessions store and the tags store as they were.
C11_OverLimitImportWritesNothing ==
    \A k \in Calls :
        (/\ validateCSV(history[k].content).isValid
         /\ Cardinality(NewTagNames(history[k].content, history[k].preTags))
                > Len(getAvailableColors(history[k].preTags))) =>
            /\ history[k].result.successCount = 0
            /\ history[k].postSessions = history[k].preSessions
            /\ history[k].postTags = history[k].preTags

\* C12: an import reads no tag by name from the store for a row, and every
\* session it saves for a row with a non-empty trimmed tag name carries the
\* tag of that name.
C12_TagAttachedWithoutReread ==
    \A k \in Calls :
        \A c \in 1..Len(history[k].calls) :
            /\ history[k].calls[c].op # "getTag"
            /\ history[k].calls[c].op = "saveSession" =>
                \E name \in {Trim(DataRowsOf(history[k].content)[history[k].calls[c].row - 1][7])} :
                    name # "" =>
                        /\ history[k].calls[c].session.tag # NullTag
                        /\ history[k].calls[c].session.tag.name = name

(***************************************************************************)
(* exportSessionsToCSV                                                     *)
(***************************************************************************)
\* getFullYear, getMonth + 1 and getDate of the date that is d days after
\* 1970-01-01
CivilFromDays(d) ==
    LET z == d + 719468
        era == z \div 146097
        doe == z - era * 146097
        yoe == (doe - doe \div 1460 + doe \div 36524 - doe \div 146096) \div 365
        doy == doe - (365 * yoe + yoe \div 4 - yoe \div 100)
        mp == (5 * doy + 2) \div 153
        m == IF mp < 10 THEN mp + 3 ELSE mp - 9
    IN  [year |-> yoe + era * 400 + (IF m <= 2 THEN 1 ELSE 0),
         month |-> m,
         day |-> doy - (153 * mp + 2) \div 5 + 1]

\* n.toString().padStart(2, "0") of a number 0 <= n
PadStart2(n) == IF n < 10 THEN "0" \o ToString(n) ELSE ToString(n)

\* `${n}` of a number n >= 0 kept in thousandths
NumberToString(thousandths) ==
    LET whole == ToString(thousandths \div 1000)
        frac == thousandths % 1000
    IN  IF frac = 0 THEN whole
        ELSE IF frac % 100 = 0 THEN whole \o "." \o ToString(frac \div 100)
        ELSE IF frac % 10 = 0 THEN whole \o "." \o PadStart2(frac \div 10)
        ELSE whole \o "." \o (IF frac < 100 THEN "0" ELSE "") \o PadStart2(frac)

\* s.replace(/"/g, '""')
RECURSIVE EscapeQuotes(_)
EscapeQuotes(s) ==
    IF Len(s) = 0 THEN ""
    ELSE (IF Ch(s, 1) = "\"" THEN "\"\"" ELSE Ch(s, 1)) \o EscapeQuotes(From(s, 2))

\* row.join(sep)
RECURSIVE Join(_, _)
Join(cells, sep) ==
    IF Len(cells) = 0 THEN ""
    ELSE IF Len(cells) = 1 THEN cells[1]
    ELSE cells[1] \o sep \o Join(Tail(cells), sep)

\* The cells sessions.map builds for one session
ExportCells(session) ==
    LET date == CivilFromDays(session.timestamp.day)
        seconds == session.timestamp.ms \div MsPerSecond
    IN  <<PadStart2(date.day) \o "/" \o PadStart2(date.month) \o "/" \o ToString(date.year),
          PadStart2(seconds \div 3600) \o ":" \o PadStart2((seconds \div 60) % 60)
            \o ":" \o PadStart2(seconds % 60),
          session.title,
          ToString(session.duration \div 1000),
          NumberToString(session.rating),
          EscapeQuotes(session.comment),
          IF session.tag = NullTag THEN "" ELSE session.tag.name,
          session.state>>

\* row.map((cell) => `"${cell}"`).join(",")
ExportLine(cells) == Join([k \in 1..Len(cells) |-> "\"" \o cells[k] \o "\""], ",")

\* The csvContent exportSessionsToCSV puts in the file it downloads; for an
\* empty list it returns before a file is made
exportSessionsToCSV(list) ==
    IF Len(list) = 0 THEN [downloaded |-> FALSE, csvContent |-> ""]
    ELSE [downloaded |-> TRUE,
          csvContent |->
            Join(<<Join(EXPECTED_HEADERS, ",")>>
                 \o [k \in 1..Len(list) |-> ExportLine(ExportCells(list[k]))], "\n")]

(***************************************************************************)
(* The export specification: the completed sessions of one device are      *)
(* exported, and the file is imported on a device with no sessions         *)
(***************************************************************************)
MaxExported == 2    \* sessions in one export

Completed(id, title, duration, comment, timestamp, tag) ==
    [id |-> id, title |-> title, duration |-> duration, rating |-> 4000,
     comment |-> comment, timestamp |-> timestamp, state |-> "completed", tag |-> tag]

\* Completed sessions as the application saves them: one of whole seconds,
\* one timed to the millisecond, two with commas and quotes in their texts,
\* and one whose tag the other device does not have
ExportedSessions ==
    {Completed(11, "Deep work", 3600000, "", T0, DefaultTags["work"]),
     Completed(12, "Run", 61500, "", [day |-> T0.day + 1, ms |-> T0.ms + 123], NullTag),
     Completed(13, "a,b", 60000, "say \"hi\"", [day |-> T0.day + 2, ms |-> T0.ms], NullTag),
     Completed(14, "the \"big\" one", 60000, "", [day |-> T0.day + 3, ms |-> T0.ms], NullTag),
     Completed(15, "Gym", 60000, "", [day |-> T0.day + 4, ms |-> T0.ms],
               Tag("fitness", COLOR_PALETTE[4], DefaultTagsTimestamp))}

\* The lists getSessionsByState("completed") can return
ExportLists ==
    {list \in UNION {[1..n -> ExportedSessions] : n \in 0..MaxExported} :
        \A i, j \in 1..Len(list) : i < j => list[i].id < list[j].id}

InitExport ==
    /\ pending \in ExportLists
    /\ pc = "idle"
    /\ content = ""
    /\ sessions = StoreOf({})
    /\ tags = DefaultTags
    /\ nextId = 3
    /\ history = <<>>
    /\ clock = 0

\* exportSessionsToCSV(pending): the file the browser downloads
Export ==
    /\ pc = "idle"
    /\ \E out \in {exportSessionsToCSV(pending)} :
        IF out.downloaded
        THEN content' = out.csvContent /\ pc' = "exported"
        ELSE UNCHANGED <<content, pc>>
    /\ UNCHANGED <<sessions, tags, nextId, history, clock, pending>>

\* The downloaded file is imported
ImportExported ==
    /\ pc = "exported"
    /\ Import

NextExport == Export \/ ImportExported

SpecExport == InitExport /\ [][NextExport]_vars

\* a and b are equal but for their ids, their tags equal by name and color
SameButId(a, b) ==
    /\ a.title = b.title
    /\ a.duration = b.duration
    /\ a.rating = b.rating
    /\ a.comment = b.comment
    /\ a.timestamp = b.timestamp
    /\ a.state = b.state
    /\ IF a.tag = NullTag \/ b.tag = NullTag THEN a.tag = b.tag
       ELSE a.tag.name = b.tag.name /\ a.tag.color = b.tag.color

\* C13: the export of completed sessions, imported into a store with no
\* sessions and no write failing, gives one stored session per exported
\* session, equal to it in title, duration, rating, comment, timestamp and
\* state, and with a tag of the same name and color.
C13_ExportImportRoundTrip ==
    \A k \in Calls :
        (/\ history[k].preSessions = StoreOf({})
         /\ history[k].writeFails = {}) =>
            /\ Cardinality(DOMAIN history[k].postSessions) = Len(pending)
            /\ \A i \in 1..Len(pending) :
                \E id \in DOMAIN history[k].postSessions :
                    SameButId(history[k].postSessions[id], pending[i])

\* The values of the 8 cells of the line of one session
CellValues(session) == [ExportCells(session) EXCEPT ![6] = session.comment]

\* C14: an exported file starts with the line
\* Date,Time,Title,Duration (seconds),Rating,Comment,Tag,State and has one
\* line per session, made of the session's 8 cell values, each with its
\* double quotes doubled and wrapped in double quotes; parseCSV reads the 8
\* cell values back from the line.
C14_EveryCellQuotedAndEscaped ==
    pc = "exported" =>
        \E lines \in {Split(content, "\n")} :
            /\ Len(lines) = Len(pending) + 1
            /\ lines[1] = Header
            /\ \A i \in 1..Len(pending) :
                \E cells \in {CellValues(pending[i])} :
                    /\ lines[i + 1] =
                        Join([c \in 1..8 |-> "\"" \o EscapeQuotes(cells[c]) \o "\""], ",")
                    /\ ParseLine(lines[i + 1]) = cells

\* The saveSession calls of an import for the rows other than r, in order
CallsButRow(calls, r) ==
    SelectSeq(calls, LAMBDA call : call.op = "saveSession" /\ call.row # r)

\* C15: when saveSession rejects for exactly one row r of a file that passes
\* validation, failedRows has one entry for r, with the message of the
\* rejection, r is not counted in successCount, and each other row is saved,
\* skipped or failed as in the same import with no rejection: the same
\* saveSession calls are made for them with the same outcome, and the store
\* ends as in that import but for the session of row r.
C15_RowFailureIsolated ==
    [][\A rec \in {history'[Len(history')]} :
        \A r \in rec.writeFails :
            (/\ rec.writeFails = {r}
             /\ \E c \in 1..Len(rec.calls) :
                    /\ rec.calls[c].op = "saveSession"
                    /\ rec.calls[c].row = r
                    /\ ~rec.calls[c].ok) =>
                \E ref \in {importSessionsFromCSV(content, sessions, tags, nextId, {})} :
                    /\ rec.result.isValid
                    /\ Cardinality({f \in 1..Len(rec.result.failedRows) :
                            rec.result.failedRows[f].rowNumber = r}) = 1
                    /\ \A f \in 1..Len(rec.result.failedRows) :
                            rec.result.failedRows[f].rowNumber = r =>
                                rec.result.failedRows[f].error = "put request failed"
                    /\ rec.result.failedCount = ref.result.failedCount + 1
                    /\ rec.result.successCount = ref.result.successCount - 1
                    /\ rec.result.duplicateRows = ref.result.duplicateRows
                    /\ CallsButRow(rec.calls, r) = CallsButRow(ref.calls, r)
                    /\ \E c \in 1..Len(ref.calls) :
                            /\ ref.calls[c].op = "saveSession"
                            /\ ref.calls[c].row = r
                            /\ ref.calls[c].ok
                            /\ ref.calls[c].session.id \notin DOMAIN sessions'
                            /\ sessions' = [id \in DOMAIN ref.sessions
                                                    \ {ref.calls[c].session.id} |->
                                                ref.sessions[id]]]_vars

\* The write of row 2 was rejected; row 2 is the one failed row, and row 3
\* was saved after it
C15_Witness ==
    \E k \in Calls :
        /\ history[k].writeFails = {2}
        /\ history[k].result.failedRows = <<[rowNumber |-> 2, error |-> "put request failed"]>>
        /\ history[k].result.successCount = 1
        /\ \E c \in 1..Len(history[k].calls) :
                /\ history[k].calls[c].op = "saveSession"
                /\ history[k].calls[c].row = 3
                /\ history[k].calls[c].ok
                /\ history[k].calls[c].session.id \in DOMAIN sessions

(***************************************************************************)
(* The validation specification: validateCSV called on a file, and the     *)
(* row loop of importSessionsFromCSV run on the rows of a file whatever    *)
(* validateCSV says of it                                                  *)
(***************************************************************************)
MaxValidatedRows == 1   \* data rows of a validated file

HeaderShort == "Date,Time,Title,Duration (seconds),Rating,Comment,Tag"

HeaderLong == "Date,Time,Title,Duration (seconds),Rating,Comment,Tag,State,Notes"

HeaderLowerCase == "date,time,title,duration (seconds),rating,comment,tag,state"

HeaderSwapped == "Time,Date,Title,Duration (seconds),Rating,Comment,Tag,State"

HeaderLines == {Header, BadHeader, HeaderShort, HeaderLong, HeaderLowerCase, HeaderSwapped}

RowFeb31 == "31/02/2026,09:00:00,Thirty-first,60,3,,,completed"

RowDayZero == "00/01/2026,09:00:00,Day zero,60,3,,,completed"

RowMonth13 == "15/13/2026,09:00:00,Month thirteen,60,3,,,completed"

RowLeapDay == "29/02/2024,09:00:00,Leap day,60,3,,,completed"

RowNoLeapDay == "29/02/2026,09:00:00,No leap day,60,3,,,completed"

ValidatedLines ==
    {RowFitness, RowActive, RowPaused, RowBadRating, RowShort,
     RowFeb31, RowDayZero, RowMonth13, RowLeapDay, RowNoLeapDay}

\* Nine cells, the rating out of range
RowLong == "27/01/2026,18:00:00,Evening,60,6,,,completed,extra"

\* Files of two rows, with rows that have not 8 cells among rows that have
MixedContents ==
    {Header \o JoinLines(rows) :
        rows \in [1..2 -> {RowShort, RowLong, RowBadRating, RowFitness}]}

ValidatedContents ==
    {header \o JoinLines(rows) :
        header \in HeaderLines,
        rows \in UNION {[1..n -> ValidatedLines] : n \in 0..MaxValidatedRows}}
    \cup MixedContents

InitValidate ==
    /\ content \in ValidatedContents
    /\ sessions = StoreOf({})
    /\ tags = DefaultTags
    /\ nextId = 3
    /\ history = <<>>
    /\ clock = 0
    /\ pc = Idle
    /\ pending = Idle

\* history without its record of the operation op
Forget(h, op) == SelectSeq(h, LAMBDA call : call.op # op)

\* validateCSV(content); history keeps the last call of each operation
Validate ==
    /\ history' = Append(Forget(history, "validateCSV"),
                         [op |-> "validateCSV", content |-> content,
                          result |-> validateCSV(content)])
    /\ UNCHANGED <<content, sessions, tags, nextId, clock, pc, pending>>

\* importSessionsFromCSV from its getAllSessions call to the end of its row
\* loop, on a file whose data rows have 8 cells each
RowLoop ==
    /\ \E dataRows \in {DataRowsOf(content)} :
        /\ \A i \in 1..Len(dataRows) : Len(dataRows[i]) = Len(EXPECTED_HEADERS)
        /\ \E done \in {ImportRows([sessions |-> sessions, successCount |-> 0,
                                    failedRows |-> <<>>, duplicateRows |-> <<>>,
                                    warnings |-> <<>>,
                                    calls |-> <<[op |-> "getAllSessions"]>>,
                                    nextId |-> nextId],
                                   dataRows, 0,
                                   {session.timestamp : session \in getAllSessions(sessions)},
                                   tags, {})} :
            /\ sessions' = done.sessions
            /\ nextId' = done.nextId
            /\ history' = Append(Forget(history, "rowLoop"),
                                 [op |-> "rowLoop", content |-> content,
                                  preSessions |-> sessions, result |-> done])
    /\ UNCHANGED <<content, tags, clock, pc, pending>>

NextValidate == Validate \/ RowLoop

SpecValidate == InitValidate /\ [][NextValidate]_vars

\* The header errors of validateCSV
HeaderErrors ==
    {RowError(1, "Invalid header count"), RowError(1, "Invalid or missing headers")}

\* C16: validateCSV called on a file whose first row is not the 8 expected
\* headers, by its number of cells or by any cell, returns isValid false and
\* sessionCount 0 with header errors only, the same result as for the header
\* line alone whatever data rows follow it.
C16_HeaderMismatchShortCircuits ==
    \A k \in Calls :
        (/\ history[k].op = "validateCSV"
         /\ ParseCSV(history[k].content)[1] # EXPECTED_HEADERS) =>
            /\ ~history[k].result.isValid
            /\ history[k].result.sessionCount = 0
            /\ Len(history[k].result.errors) > 0
            /\ \A e \in 1..Len(history[k].result.errors) :
                    history[k].result.errors[e] \in HeaderErrors
            /\ history[k].result = validateCSV(Split(history[k].content, "\n")[1])

\* The file with Duration for Duration (seconds) and a good data row was
\* rejected for its header
C16_Witness ==
    \E k \in Calls :
        /\ history[k].op = "validateCSV"
        /\ history[k].content = BadHeader \o "\n" \o RowFitness
        /\ ~history[k].result.isValid
        /\ history[k].result.errors = <<RowError(1, "Invalid or missing headers")>>
        /\ history[k].result.sessionCount = 0

LiveRowError == "Cannot import active or paused sessions"

\* C17: validateCSV returns isValid false, with the error of the row, for a
\* file with the expected header and an 8-cell data row whose State is active
\* or paused; and the row loop of the import, run on such a row, records the
\* row in failedRows and makes no saveSession call for it.
C17_LiveRowsRejectedTwice ==
    \A k \in Calls :
        \E rows \in {ParseCSV(history[k].content)} :
            \A i \in 2..Len(rows) :
                (Len(rows[i]) = 8 /\ rows[i][8] \in {"active", "paused"}) =>
                    /\ (history[k].op = "validateCSV" /\ rows[1] = EXPECTED_HEADERS) =>
                            /\ ~history[k].result.isValid
                            /\ Includes(history[k].result.errors, RowError(i, LiveRowError))
                    /\ history[k].op = "rowLoop" =>
                            /\ Includes(history[k].result.failedRows,
                                        [rowNumber |-> i, error |-> LiveRowError])
                            /\ \A c \in 1..Len(history[k].result.calls) :
                                    history[k].result.calls[c].op = "saveSession" =>
                                        history[k].result.calls[c].row # i
                            /\ history[k].result.successCount = 0 =>
                                    history[k].result.sessions = history[k].preSessions

\* The file whose one row is paused and has no other fault was validated
\* and got that one error, and the row loop, run on it all the same, failed
\* the row and stored nothing
C17_Witness ==
    /\ content = Header \o "\n" \o RowPaused
    /\ \E k \in Calls :
            /\ history[k].op = "validateCSV"
            /\ history[k].result.errors = <<RowError(2, LiveRowError)>>
    /\ \E k \in Calls :
            /\ history[k].op = "rowLoop"
            /\ history[k].result.failedRows = <<[rowNumber |-> 2, error |-> LiveRowError]>>
            /\ sessions = StoreOf({})

\* The days of month m of year y
DaysInMonth(y, m) ==
    IF m = 2 THEN (IF (y % 4 = 0 /\ y % 100 # 0) \/ y % 400 = 0 THEN 29 ELSE 28)
    ELSE IF m \in {4, 6, 9, 11} THEN 30 ELSE 31

\* day/month/year is a date of the calendar
IsCalendarDate(day, month, year) ==
    /\ month \in 1..12
    /\ day >= 1
    /\ day <= DaysInMonth(year, month)

\* C18: for every 8-cell data row of a validated file with the expected
\* header whose date is three numbers D/M/Y, parseDateDDMMYYYY fails and
\* validateCSV has an error for the row when D/M/Y is not a date of the
\* calendar, and a timestamp it returns is on the day D of month M of year Y.
C18_CalendarDatesOnly ==
    \A k \in Calls :
        \E rows \in {ParseCSV(history[k].content)} :
            (history[k].op = "validateCSV" /\ rows[1] = EXPECTED_HEADERS) =>
                \A i \in 2..Len(rows) :
                    Len(rows[i]) = 8 =>
                        \E parts \in {Split(Trim(rows[i][1]), "/")},
                           parsed \in {parseDateDDMMYYYY(rows[i][1], rows[i][2])} :
                            (Len(parts) = 3 /\ \A p \in 1..3 : ~IsNaN(ParseInt(parts[p]))) =>
                                /\ ~IsCalendarDate(ParseInt(parts[1]).val, ParseInt(parts[2]).val,
                                                   ParseInt(parts[3]).val) =>
                                        /\ ~parsed.ok
                                        /\ \E e \in 1..Len(history[k].result.errors) :
                                                history[k].result.errors[e].row = i
                                /\ parsed.ok =>
                                        CivilFromDays(parsed.value.val.day) =
                                            [year |-> ParseInt(parts[3]).val,
                                             month |-> ParseInt(parts[2]).val,
                                             day |-> ParseInt(parts[1]).val]

(***************************************************************************)
(* The snapshot specification: sessions are saved with the tag record of   *)
(* the time, and the tag record is then saved anew or deleted              *)
(***************************************************************************)
MaxTagged == 2      \* sessions saved with a tag

MaxInstances == 1   \* totalInstances of a saved tag

\* Faulty variant of TagsTransaction: the write goes on to the sessions that
\* embed the tag of that name
TagsTransactionCascading(sessionStore, name, record) ==
    [id \in DOMAIN sessionStore |->
        IF sessionStore[id].tag # NullTag /\ sessionStore[id].tag.name = name
        THEN [sessionStore[id] EXCEPT !.tag = record]
        ELSE sessionStore[id]]

\* db.transaction(TAGS_STORE, "readwrite") with one put or delete of the
\* record under name: the sessions store is not in the scope of the
\* transaction and is left as it is
TagsTransaction(sessionStore, name, record) == sessionStore

\* The tags saveTag is called with: the tag work in its color, in the color
\* of the tag routine and in a free color, counted or not
SavedTags ==
    {[Tag("work", color, DefaultTagsTimestamp) EXCEPT !.totalInstances = n] :
        color \in {COLOR_PALETTE[1], COLOR_PALETTE[3], COLOR_PALETTE[4]},
        n \in 0..MaxInstances}

InitSnapshots ==
    /\ sessions = StoreOf({})
    /\ tags = DefaultTags
    /\ pending = [id \in {} |-> NullTag]
    /\ history = <<>>
    /\ content = ""
    /\ nextId = 0
    /\ clock = 0
    /\ pc = Idle

\* saveSession of a completed session with no tag or with the tag work as
\* getTag returns it; pending keeps the tag each session was saved with
SaveTaggedSession ==
    /\ \E id \in 1..MaxTagged, tag \in {NullTag, getTag(tags, "work")}, fault \in BOOLEAN :
        \E out \in {saveSession(sessions, [SessionOf(id, "completed") EXCEPT !.tag = tag],
                                fault)} :
            /\ sessions' = out.sessions
            /\ pending' = IF out.ok THEN Put(pending, id, tag) ELSE pending
            /\ history' = <<[op |-> "saveSession", ok |-> out.ok]>>
    /\ UNCHANGED <<tags, content, nextId, clock, pc>>

\* saveTag(tag)
SaveTag ==
    /\ \E tag \in SavedTags, fault \in BOOLEAN :
        \E out \in {saveTag(tags, tag, fault)} :
            /\ tags' = out.tags
            /\ sessions' = TagsTransaction(sessions, tag.name, tag)
            /\ history' = <<[op |-> "saveTag", ok |-> out.ok]>>
    /\ UNCHANGED <<pending, content, nextId, clock, pc>>

\* deleteTag(name)
DeleteSavedTag ==
    /\ \E name \in {"work", "study"} :
        /\ tags' = deleteTag(tags, name)
        /\ sessions' = TagsTransaction(sessions, name, NullTag)
        /\ history' = <<[op |-> "deleteTag", ok |-> TRUE]>>
    /\ UNCHANGED <<pending, content, nextId, clock, pc>>

NextSnapshots == SaveTaggedSession \/ SaveTag \/ DeleteSavedTag

SpecSnapshots == InitSnapshots /\ [][NextSnapshots]_vars

\* C19: a saveTag or deleteTag call leaves the sessions store as it was, and
\* every stored session has the tag, with its name and color, that it was
\* saved with, whatever was done to the tag record of that name since.
C19_SessionsKeepTagSnapshot ==
    /\ [][history'[1].op \in {"saveTag", "deleteTag"} => sessions' = sessions]_vars
    /\ [](\A id \in DOMAIN sessions :
            /\ id \in DOMAIN pending
            /\ (pending[id] = NullTag) = (sessions[id].tag = NullTag)
            /\ pending[id] # NullTag =>
                    /\ sessions[id].tag.name = pending[id].name
                    /\ sessions[id].tag.color = pending[id].color)

\* One session holds the tag work in its first color though the tag was
\* recolored afterwards, another holds it though the tag has been deleted
C19_Witness ==
    /\ "work" \notin DOMAIN tags
    /\ DOMAIN sessions = {1, 2}
    /\ sessions[1].tag # NullTag /\ sessions[2].tag # NullTag
    /\ sessions[1].tag.color = COLOR_PALETTE[3]
    /\ sessions[2].tag.color = COLOR_PALETTE[4]
    /\ history[1].op = "deleteTag"

(***************************************************************************)
(* calculateStatistics                                                     *)
(***************************************************************************)
\* A number num / den, or its square root; the fractions are not reduced
Fraction(num, den) == [num |-> num, den |-> den, root |-> FALSE]

Zero == Fraction(0, 1)

\* Math.sqrt of a fraction that is not negative
Sqrt(q) == IF q.num = 0 THEN Zero ELSE [q EXCEPT !.root = TRUE]

\* mode: null
NullMode == [kind |-> "null", val |-> 0]

BUCKET_SIZE == 30 * 60 * 1000

MsPerMinute == 60 * 1000

RECURSIVE Sum(_)
Sum(seq) == IF Len(seq) = 0 THEN 0 ELSE Head(seq) + Sum(Tail(seq))

\* Faulty variant of EmptyStatistics: what the rest of calculateStatistics
\* computes for a list of no durations, the mean and the median 0 / 0
UnguardedStatistics ==
    [mean |-> Fraction(0, 0), median |-> Fraction(0, 0), mode |-> NullMode,
     variance |-> Zero, standardDeviation |-> Zero, min |-> 0, max |-> 0, count |-> 0,
     sum |-> 0]

\* The Statistics returned for a list of no durations
EmptyStatistics ==
    [mean |-> Zero, median |-> Zero, mode |-> NullMode, variance |-> Zero,
     standardDeviation |-> Zero, min |-> 0, max |-> 0, count |-> 0, sum |-> 0]

\* Faulty variant of ModeOf: the midpoint of the bucket whatever it holds
ModeOfAnyBucket(maxFrequency, maxFrequencyBucket) ==
    [kind |-> "num", val |-> maxFrequencyBucket * BUCKET_SIZE + BUCKET_SIZE \div 2]

\* mode: the midpoint of the bucket, only if there is a repeating bucket
ModeOf(maxFrequency, maxFrequencyBucket) ==
    IF maxFrequency > 1
    THEN [kind |-> "num", val |-> maxFrequencyBucket * BUCKET_SIZE + BUCKET_SIZE \div 2]
    ELSE NullMode

\* The statistics of durations in milliseconds. mean and median are
\* fractions of milliseconds. variance is a fraction of square minutes, and
\* standardDeviation its root, computed on the durations in minutes: the
\* durations of the model are whole minutes and their squares in
\* milliseconds are beyond the integers of the model.
calculateStatistics(durations) ==
    LET count == Len(durations)
        Stats(sorted, sum, middleIndex) ==
            LET bucketKeys == [k \in 1..count |-> durations[k] \div BUCKET_SIZE]
                Frequency(bucket) == Cardinality({k \in 1..count : bucketKeys[k] = bucket})
                maxFrequency == CHOOSE f \in {Frequency(bucketKeys[k]) : k \in 1..count} :
                                    \A k \in 1..count : Frequency(bucketKeys[k]) <= f
                \* the first bucket, in the order the buckets entered the map,
                \* with the highest frequency
                maxFrequencyBucket ==
                    bucketKeys[CHOOSE k \in 1..count :
                                    /\ Frequency(bucketKeys[k]) = maxFrequency
                                    /\ \A j \in 1..(k - 1) :
                                            Frequency(bucketKeys[j]) < maxFrequency]
                minutes == [k \in 1..count |-> durations[k] \div MsPerMinute]
                Variance(total) ==
                    IF count > 1
                    THEN Fraction(Sum([k \in 1..count |->
                                        (count * minutes[k] - total)
                                        * (count * minutes[k] - total)]),
                                  count * count * (count - 1))
                    ELSE Zero
                Result(variance) ==
                    [mean |-> Fraction(sum, count),
                     median |-> IF count % 2 = 0
                                THEN Fraction(sorted[middleIndex] + sorted[middleIndex + 1], 2)
                                ELSE Fraction(sorted[middleIndex + 1], 1),
                     mode |-> ModeOf(maxFrequency, maxFrequencyBucket),
                     variance |-> variance,
                     standardDeviation |-> Sqrt(variance),
                     min |-> sorted[1],
                     max |-> sorted[count],
                     count |-> count,
                     sum |-> sum]
            IN  Result(Variance(Sum(minutes)))
    IN  IF count = 0 THEN EmptyStatistics
        ELSE Stats(SortSeq(durations, LAMBDA a, b : a < b), Sum(durations), count \div 2)

(***************************************************************************)
(* The statistics specification: calculateStatistics called on a list of   *)
(* durations                                                               *)
(***************************************************************************)
MaxDurations == 3   \* durations in one list

\* 0, 10, 25, 40 and 70 minutes
DurationValues == {0, 600000, 1500000, 2400000, 4200000}

DurationLists == UNION {[1..n -> DurationValues] : n \in 0..MaxDurations}

InitStatistics ==
    /\ pending \in DurationLists
    /\ history = <<>>
    /\ content = ""
    /\ sessions = StoreOf({})
    /\ tags = DefaultTags
    /\ nextId = 0
    /\ clock = 0
    /\ pc = Idle

\* calculateStatistics(pending); history keeps the last call only
Calculate ==
    /\ history' = <<[op |-> "calculateStatistics", durations |-> pending,
                     result |-> calculateStatistics(pending)]>>
    /\ UNCHANGED <<pending, content, sessions, tags, nextId, clock, pc>>

NextStatistics == Calculate

SpecStatistics == InitStatistics /\ [][NextStatistics]_vars

\* C20: calculateStatistics called on a list of no durations returns count
\* 0, mode null, and 0 for mean, median, variance, standardDeviation, min,
\* max and sum.
C20_EmptyListStatistics ==
    \A k \in Calls :
        history[k].durations = <<>> =>
            /\ history[k].result.count = 0
            /\ history[k].result.mode = NullMode
            /\ history[k].result.mean.num = 0 /\ history[k].result.mean.den # 0
            /\ history[k].result.median.num = 0 /\ history[k].result.median.den # 0
            /\ history[k].result.variance.num = 0 /\ history[k].result.variance.den # 0
            /\ history[k].result.standardDeviation.num = 0
            /\ history[k].result.standardDeviation.den # 0
            /\ history[k].result.min = 0
            /\ history[k].result.max = 0
            /\ history[k].result.sum = 0

\* calculateStatistics was called on the list of no durations
C20_Witness ==
    \E k \in Calls :
        /\ history[k].op = "calculateStatistics"
        /\ history[k].durations = <<>>
        /\ history[k].result.count = 0
        /\ pending = <<>>

(***************************************************************************)
(* The numbers of JavaScript with their rounding: IEEE 754 binary64,      *)
(* rounded to the nearest number, a tie to the even one. Only numbers that *)
(* are not negative, and far from the ends of the exponent range           *)
(***************************************************************************)
MantissaBits == 53

\* A number is the binary numeral bits, bits[1] = 1, times 2^exp; zero has
\* no bits
DoubleZero == [exp |-> 0, bits |-> <<>>]

Zeros(n) == [k \in 1..n |-> 0]

\* bits without its leading zeros
StripZeros(bits) ==
    IF \A k \in 1..Len(bits) : bits[k] = 0 THEN <<>>
    ELSE SubSeq(bits, CHOOSE k \in 1..Len(bits) :
                        bits[k] = 1 /\ \A j \in 1..(k - 1) : bits[j] = 0,
                Len(bits))

RECURSIVE NatBits(_)
NatBits(n) == IF n = 0 THEN <<>> ELSE Append(NatBits(n \div 2), n % 2)

RECURSIVE BitsNat(_)
BitsNat(bits) ==
    IF Len(bits) = 0 THEN 0
    ELSE 2 * BitsNat(SubSeq(bits, 1, Len(bits) - 1)) + bits[Len(bits)]

\* The numeral bits + 1
Increment(bits) ==
    IF \A k \in 1..Len(bits) : bits[k] = 1 THEN <<1>> \o Zeros(Len(bits))
    ELSE LET last == CHOOSE k \in 1..Len(bits) :
                        bits[k] = 0 /\ \A j \in (k + 1)..Len(bits) : bits[j] = 1
         IN  [k \in 1..Len(bits) |-> IF k < last THEN bits[k] ELSE IF k = last THEN 1 ELSE 0]

\* The number nearest to bits * 2^exp, bits a numeral with no leading zero;
\* inexact: the exact value is above bits * 2^exp, by less than 2^exp
Rounded(bits, exp, inexact) ==
    IF Len(bits) = 0 THEN DoubleZero
    ELSE IF Len(bits) <= MantissaBits
    THEN [exp |-> exp - (MantissaBits - Len(bits)),
          bits |-> bits \o Zeros(MantissaBits - Len(bits))]
    ELSE LET kept == SubSeq(bits, 1, MantissaBits)
             half == bits[MantissaBits + 1] = 1
             more == inexact \/ \E k \in (MantissaBits + 2)..Len(bits) : bits[k] = 1
             Carried(up) ==
                [exp |-> exp + Len(bits) - MantissaBits
                         + (IF Len(up) > MantissaBits THEN 1 ELSE 0),
                 bits |-> SubSeq(up, 1, MantissaBits)]
         IN  IF half /\ (more \/ kept[MantissaBits] = 1)
             THEN Carried(Increment(kept))
             ELSE Carried(kept)

DoubleOfNat(n) == Rounded(NatBits(n), 0, FALSE)

\* The arithmetic works on numerals of bytes, eight bits each
Byte == 2 ^ 8

ToBytes(bits) ==
    LET n == (Len(bits) + 7) \div 8
        Bytes(padded) == [j \in 1..n |-> BitsNat(SubSeq(padded, 8 * j - 7, 8 * j))]
    IN  Bytes(Zeros(8 * n - Len(bits)) \o bits)

FromBytes(bytes) ==
    [i \in 1..(8 * Len(bytes)) |->
        (bytes[(i - 1) \div 8 + 1] \div (2 ^ (7 - ((i - 1) % 8)))) % 2]

RECURSIVE NatBytes(_)
NatBytes(n) == IF n = 0 THEN <<>> ELSE Append(NatBytes(n \div Byte), n % Byte)

\* The numeral bytes[1..i] * k + carry, k a natural number
RECURSIVE TimesFrom(_, _, _, _)
TimesFrom(bytes, k, i, carry) ==
    IF i = 0 THEN NatBytes(carry)
    ELSE Append(TimesFrom(bytes, k, i - 1, (bytes[i] * k + carry) \div Byte),
                (bytes[i] * k + carry) % Byte)

\* x * k, k a natural number
DoubleTimes(x, k) ==
    LET Product(bytes) == FromBytes(TimesFrom(bytes, k, Len(bytes), 0))
    IN  Rounded(StripZeros(Product(ToBytes(x.bits))), x.exp, FALSE)

\* The quotient and the remainder of the numeral bytes[1..i] by k
RECURSIVE DivideTo(_, _, _)
DivideTo(bytes, k, i) ==
    LET Step(prev) ==
            [bytes |-> Append(prev.bytes, (prev.rem * Byte + bytes[i]) \div k),
             rem |-> (prev.rem * Byte + bytes[i]) % k]
    IN  IF i = 0 THEN [bytes |-> <<>>, rem |-> 0] ELSE Step(DivideTo(bytes, k, i - 1))

\* x / k, k a positive natural number: the division goes on below the last
\* bit of x until the quotient has more bits than a number keeps
DoubleOver(x, k) ==
    LET extra == Len(NatBits(k)) + 2
        Quotient(d) == Rounded(StripZeros(FromBytes(d.bytes)), x.exp - extra, d.rem # 0)
        Divided(bytes) == Quotient(DivideTo(bytes, k, Len(bytes)))
    IN  Divided(ToBytes(x.bits \o Zeros(extra)))

\* The numeral a[1..i] + b[1..i] + carry, a and b of one length
RECURSIVE PlusFrom(_, _, _, _)
PlusFrom(a, b, i, carry) ==
    IF i = 0 THEN NatBytes(carry)
    ELSE Append(PlusFrom(a, b, i - 1, (a[i] + b[i] + carry) \div Byte),
                (a[i] + b[i] + carry) % Byte)

\* x + y
DoublePlus(x, y) ==
    LET Aligned(a, b, exp) ==
            LET n == IF Len(a) > Len(b) THEN Len(a) ELSE Len(b)
                Total(c, d) == FromBytes(PlusFrom(c, d, Len(c), 0))
            IN  Rounded(StripZeros(Total(ToBytes(Zeros(n - Len(a)) \o a),
                                         ToBytes(Zeros(n - Len(b)) \o b))),
                        exp, FALSE)
        Shifted(exp) ==
            Aligned(x.bits \o Zeros(x.exp - exp), y.bits \o Zeros(y.exp - exp), exp)
    IN  IF Len(x.bits) = 0 THEN y
        ELSE IF Len(y.bits) = 0 THEN x
        ELSE Shifted(IF x.exp < y.exp THEN x.exp ELSE y.exp)

\* x >= p, p a natural number below 2^31
DoubleAtLeast(x, p) ==
    IF Len(x.bits) = 0 THEN p = 0
    ELSE IF x.exp >= 0 THEN Len(x.bits) + x.exp > 31 \/ BitsNat(x.bits \o Zeros(x.exp)) >= p
    ELSE IF 0 - x.exp >= Len(x.bits) THEN p = 0
    ELSE BitsNat(SubSeq(x.bits, 1, Len(x.bits) + x.exp)) >= p

(***************************************************************************)
(* calculateZScores                                                        *)
(***************************************************************************)
\* (duration - mean) / standardDeviation, kept as the quotient it is
Quotient(duration, mean, standardDeviation) ==
    [duration |-> duration, mean |-> mean, standardDeviation |-> standardDeviation]

calculateZScores(dayData, stats) ==
    IF stats.standardDeviation = Zero
    THEN [k \in 1..Len(dayData) |->
            [date |-> dayData[k].date, duration |-> dayData[k].duration, zScore |-> Zero]]
    ELSE [k \in 1..Len(dayData) |->
            [date |-> dayData[k].date, duration |-> dayData[k].duration,
             zScore |-> Quotient(dayData[k].duration, stats.mean, stats.standardDeviation)]]

\* parseFloat(duration) * 1000 of a cell of thousandths of a second, as the
\* numbers round it
ImportedDuration(thousandths) ==
    DoubleTimes(DoubleOver(DoubleOfNat(thousandths), 1000), 1000)

\* durations.reduce((acc, val) => acc + val, 0)
RECURSIVE DoubleSum(_)
DoubleSum(durations) ==
    IF Len(durations) = 0 THEN DoubleZero
    ELSE DoublePlus(DoubleSum(SubSeq(durations, 1, Len(durations) - 1)),
                    durations[Len(durations)])

\* A standard deviation above 0 whose value the model does not compute
Positive == [num |-> 1, den |-> 0, root |-> TRUE]

\* What calculateZScores reads of the statistics of a non-empty list of
\* durations that are not whole milliseconds: the mean as the numbers round
\* it, and whether the standard deviation is 0. val - mean is 0 only for
\* val = mean, and the squares, their sum, its quotient and its root are 0
\* only when every val - mean is.
calculateStatisticsRounded(durations) ==
    LET count == Len(durations)
        Stats(mean) ==
            [mean |-> mean,
             standardDeviation |->
                IF count > 1 /\ \E k \in 1..count : durations[k] # mean
                THEN Positive ELSE Zero,
             count |-> count]
    IN  Stats(DoubleOver(DoubleSum(durations), count))

(***************************************************************************)
(* removeOutliers                                                          *)
(***************************************************************************)
\* Faulty variant of removeOutliers: the quartiles themselves as the fences
removeOutliersBetweenQuartiles(dayData) ==
    LET n == Len(dayData)
        Fenced(durations) ==
            LET q1 == durations[n \div 4 + 1]
                q3 == durations[(3 * n) \div 4 + 1]
                Kept(filtered) == [filtered |-> filtered, removed |-> n - Len(filtered)]
            IN  Kept(SelectSeq(dayData, LAMBDA day :
                        /\ day.duration >= q1
                        /\ day.duration <= q3))
    IN  IF n = 0 THEN [filtered |-> <<>>, removed |-> 0]
        ELSE Fenced(SortSeq([k \in 1..n |-> dayData[k].duration], LAMBDA a, b : a < b))

\* Faulty variant of removeOutliers: the median taken as the upper quartile
removeOutliersUnderMedian(dayData) ==
    LET n == Len(dayData)
        Fenced(durations) ==
            LET q1 == durations[n \div 4 + 1]
                q3 == durations[n \div 2 + 1]
                Kept(filtered) == [filtered |-> filtered, removed |-> n - Len(filtered)]
            IN  Kept(SelectSeq(dayData, LAMBDA day :
                        /\ 2 * day.duration >= 2 * q1 - 3 * (q3 - q1)
                        /\ 2 * day.duration <= 2 * q3 + 3 * (q3 - q1)))
    IN  IF n = 0 THEN [filtered |-> <<>>, removed |-> 0]
        ELSE Fenced(SortSeq([k \in 1..n |-> dayData[k].duration], LAMBDA a, b : a < b))

\* The quartiles are durations[Math.floor(n * 0.25)] and
\* durations[Math.floor(n * 0.75)] of the sorted durations, counted from 0;
\* both sides of the fences are doubled to stay in whole numbers. Of no days
\* the quartiles are undefined and the filter has nothing to keep.
removeOutliers(dayData) ==
    LET n == Len(dayData)
        Fenced(durations) ==
            LET q1 == durations[n \div 4 + 1]
                q3 == durations[(3 * n) \div 4 + 1]
                Kept(filtered) == [filtered |-> filtered, removed |-> n - Len(filtered)]
            IN  Kept(SelectSeq(dayData, LAMBDA day :
                        /\ 2 * day.duration >= 2 * q1 - 3 * (q3 - q1)
                        /\ 2 * day.duration <= 2 * q3 + 3 * (q3 - q1)))
    IN  IF n = 0 THEN [filtered |-> <<>>, removed |-> 0]
        ELSE Fenced(SortSeq([k \in 1..n |-> dayData[k].duration], LAMBDA a, b : a < b))

(***************************************************************************)
(* createDistributionData                                                  *)
(***************************************************************************)
\* A z-score times the count and the standard deviation, in minutes: the
\* z-scores of one call share both, so that their order and the ratios of
\* their differences are those of these whole numbers
ZNumerator(z) ==
    IF z = Zero THEN 0 ELSE (z.mean.den * z.duration - z.mean.num) \div MsPerMinute

Minimum(values) == CHOOSE v \in values : \A w \in values : v <= w

Maximum(values) == CHOOSE v \in values : \A w \in values : w <= v

\* Faulty variant of createDistributionData: the bucket index is not capped
\* at bucketCount - 1, and the points of the maximum are counted nowhere
createDistributionDataUncapped(zScores, bucketCount) ==
    LET n == Len(zScores)
        values == [k \in 1..n |-> ZNumerator(zScores[k].zScore)]
        Buckets(minZ, maxZ) ==
            LET bucketIndex(k) == ((values[k] - minZ) * bucketCount) \div (maxZ - minZ)
            IN  IF minZ = maxZ THEN <<[zScore |-> Fraction(minZ, 1), frequency |-> n]>>
                ELSE [i \in 1..bucketCount |->
                        [zScore |-> Fraction(2 * bucketCount * minZ
                                             + (2 * i - 1) * (maxZ - minZ), 2 * bucketCount),
                         frequency |-> Cardinality({k \in 1..n : bucketIndex(k) = i - 1})]]
    IN  IF n = 0 THEN <<>>
        ELSE Buckets(Minimum({values[k] : k \in 1..n}), Maximum({values[k] : k \in 1..n}))

\* The buckets, the i-th centred at minZ + (i - 1) * bucketSize + bucketSize / 2
\* with bucketSize = (maxZ - minZ) / bucketCount; the z-scores are in the
\* unit of ZNumerator. (z - minZ) / bucketSize is taken exactly.
createDistributionData(zScores, bucketCount) ==
    LET n == Len(zScores)
        values == [k \in 1..n |-> ZNumerator(zScores[k].zScore)]
        Buckets(minZ, maxZ) ==
            LET floor(k) == ((values[k] - minZ) * bucketCount) \div (maxZ - minZ)
                bucketIndex(k) == IF floor(k) < bucketCount - 1 THEN floor(k)
                                  ELSE bucketCount - 1
            IN  IF minZ = maxZ THEN <<[zScore |-> Fraction(minZ, 1), frequency |-> n]>>
                ELSE [i \in 1..bucketCount |->
                        [zScore |-> Fraction(2 * bucketCount * minZ
                                             + (2 * i - 1) * (maxZ - minZ), 2 * bucketCount),
                         frequency |-> Cardinality({k \in 1..n : bucketIndex(k) = i - 1})]]
    IN  IF n = 0 THEN <<>>
        ELSE Buckets(Minimum({values[k] : k \in 1..n}), Maximum({values[k] : k \in 1..n}))

(***************************************************************************)
(* filterDaysByCompleteness                                                *)
(***************************************************************************)
\* The Map of dates to percentiles; dayTotals lists the entries of its Map
\* in insertion order. The sort by total is stable: rank is the place of an
\* entry in sortedTotals, counted from 1.
calculateCompletenessPercentiles(dayTotals) ==
    LET totalDays == Len(dayTotals)
        rank(k) == Cardinality({j \in 1..totalDays :
                        \/ dayTotals[j].total < dayTotals[k].total
                        \/ dayTotals[j].total = dayTotals[k].total /\ j <= k})
        EntryOf(date) == CHOOSE k \in 1..totalDays : dayTotals[k].date = date
    IN  [date \in {dayTotals[k].date : k \in 1..totalDays} |->
            DoubleTimes(DoubleOver(DoubleOfNat(rank(EntryOf(date))), totalDays), 100)]

\* minPercentile is a whole number
filterDaysByCompleteness(dayData, dayTotals, minPercentile) ==
    LET Filtered(percentiles) ==
            SelectSeq(dayData, LAMBDA day :
                DoubleAtLeast(IF day.date \in DOMAIN percentiles
                              THEN percentiles[day.date] ELSE DoubleZero,
                              minPercentile))
    IN  IF minPercentile = 0 THEN dayData
        ELSE Filtered(calculateCompletenessPercentiles(dayTotals))

(***************************************************************************)
(* The analysis specification: the days of the selected tag go through     *)
(* the functions of the statistics page                                    *)
(***************************************************************************)
MaxDays == 3          \* days with sessions
MaxEqualDays == 5     \* days of one imported duration
MaxBuckets == 3       \* buckets of the distribution
ManyDays == 50        \* days of the longest list

\* YYYY-MM-DD of the k-th day of 2025, k <= 59
DateKey(k) ==
    IF k <= 31 THEN "2025-01-" \o PadStart2(k) ELSE "2025-02-" \o PadStart2(k - 31)

\* Time of the selected tag in a day: none, 10, 40 and 70 minutes
TagDurations == {0, 600000, 2400000, 4200000}

\* Time of the other tags in a day: none and 30 minutes
OtherDurations == {0, 1800000}

\* The days that have completed sessions, in the order of their first session
DayLists ==
    UNION {{[k \in 1..n |-> [date |-> DateKey(k), duration |-> f[k][1],
                              totalDayHours |-> f[k][1] + f[k][2]]] :
                f \in [1..n -> {p \in TagDurations \X OtherDurations : p[1] + p[2] > 0}]} :
           n \in 1..MaxDays}

\* Cells of the Duration (seconds) column
SecondsCells == {1000, 1001, 2500}

\* Days of one session each, imported with the same duration
EqualDayLists ==
    {[k \in 1..n |-> [date |-> DateKey(k), duration |-> ImportedDuration(cell),
                      totalDayHours |-> ImportedDuration(cell)]] :
        n \in 1..MaxEqualDays, cell \in SecondsCells}

\* Days of the selected tag alone, with the given minutes
DaysOfMinutes(minutes) ==
    [k \in 1..Len(minutes) |-> [date |-> DateKey(k), duration |-> minutes[k] * MsPerMinute,
                                totalDayHours |-> minutes[k] * MsPerMinute]]

\* A day far above the others, and a day below three equal ones
OutlierDayLists == {DaysOfMinutes(<<60, 65, 62, 58, 500>>), DaysOfMinutes(<<70, 10, 70, 70>>)}

\* Days of 11, 12, ... minutes
ManyDayLists == {DaysOfMinutes([k \in 1..ManyDays |-> 10 + k])}

\* The minimum day completeness set on the page
MinPercentiles == {0, 50, 58, 100}

\* calculateDayTotals: the entries of the Map of dates to totals
DayTotalsOf(days) ==
    [k \in 1..Len(days) |-> [date |-> days[k].date, total |-> days[k].totalDayHours]]

\* getTagDailyDurations: the days where the tag was used
DayDataOf(days) == SelectSeq(days, LAMBDA day : day.duration > 0)

InitAnalysis ==
    /\ \/ pending \in {[whole |-> TRUE, days |-> days] : days \in DayLists \cup OutlierDayLists \cup ManyDayLists}
       \/ pending \in {[whole |-> FALSE, days |-> days] : days \in EqualDayLists}
    /\ history = <<>>
    /\ content = ""
    /\ sessions = StoreOf({})
    /\ tags = DefaultTags
    /\ nextId = 0
    /\ clock = 0
    /\ pc = Idle

\* calculateZScores(filteredDayData, statistics) on the days of the tag. The
\* functions of the page are pure: a behaviour makes one call, which history
\* keeps
ZScores ==
    /\ history = <<>>
    /\ pending.whole
    /\ \E dayData \in {DayDataOf(pending.days)} :
       \E stats \in {calculateStatistics([k \in 1..Len(dayData) |-> dayData[k].duration])} :
            history' = <<[op |-> "calculateZScores", dayData |-> dayData, stats |-> stats,
                          result |-> calculateZScores(dayData, stats)]>>
    /\ UNCHANGED <<pending, content, sessions, tags, nextId, clock, pc>>

\* The same call on days whose durations are not whole milliseconds
ZScoresRounded ==
    /\ history = <<>>
    /\ ~pending.whole
    /\ \E stats \in {calculateStatisticsRounded(
                        [k \in 1..Len(pending.days) |-> pending.days[k].duration])} :
            history' = <<[op |-> "calculateZScores", dayData |-> pending.days,
                          stats |-> stats,
                          result |-> calculateZScores(pending.days, stats)]>>
    /\ UNCHANGED <<pending, content, sessions, tags, nextId, clock, pc>>

\* removeOutliers(rawFilteredDayData)
RemoveOutliers ==
    /\ history = <<>>
    /\ pending.whole
    /\ \E dayData \in {DayDataOf(pending.days)} :
            history' = <<[op |-> "removeOutliers", dayData |-> dayData,
                          result |-> removeOutliers(dayData)]>>
    /\ UNCHANGED <<pending, content, sessions, tags, nextId, clock, pc>>

\* createDistributionData(zScores, bucketCount) on the z-scores of the days
Distribution ==
    /\ history = <<>>
    /\ pending.whole
    /\ \E bucketCount \in 1..MaxBuckets :
       \E dayData \in {DayDataOf(pending.days)} :
       \E stats \in {calculateStatistics([k \in 1..Len(dayData) |-> dayData[k].duration])} :
       \E zScores \in {calculateZScores(dayData, stats)} :
            history' = <<[op |-> "createDistributionData", zScores |-> zScores,
                          bucketCount |-> bucketCount,
                          result |-> createDistributionData(zScores, bucketCount)]>>
    /\ UNCHANGED <<pending, content, sessions, tags, nextId, clock, pc>>

\* filterDaysByCompleteness(dayData, allDayTotals, tolerancePercentile)
FilterDays ==
    /\ history = <<>>
    /\ pending.whole
    /\ \E minPercentile \in MinPercentiles :
       \E dayData \in {DayDataOf(pending.days)} :
       \E dayTotals \in {DayTotalsOf(pending.days)} :
            history' = <<[op |-> "filterDaysByCompleteness", dayData |-> dayData,
                          dayTotals |-> dayTotals, minPercentile |-> minPercentile,
                          result |-> filterDaysByCompleteness(dayData, dayTotals,
                                                              minPercentile)]>>
    /\ UNCHANGED <<pending, content, sessions, tags, nextId, clock, pc>>

NextAnalysis ==
    \/ ZScores
    \/ ZScoresRounded
    \/ RemoveOutliers
    \/ Distribution
    \/ FilterDays

SpecAnalysis == InitAnalysis /\ [][NextAnalysis]_vars

\* C21: for any non-empty list of days whose durations are all equal, a
\* single day included, the statistics have standardDeviation 0 and
\* calculateZScores returns the z-score 0 for every day, no quotient by 0.
C21_EqualDurationsScoreZero ==
    \A c \in Calls :
        (/\ history[c].op = "calculateZScores"
         /\ Len(history[c].dayData) > 0
         /\ \A k \in 1..Len(history[c].dayData) :
                history[c].dayData[k].duration = history[c].dayData[1].duration)
        => /\ history[c].stats.standardDeviation = Zero
           /\ \A k \in 1..Len(history[c].result) : history[c].result[k].zScore = Zero

\* The durations of days, in minutes
MinutesOf(days) == [k \in 1..Len(days) |-> days[k].duration \div MsPerMinute]

\* C22: removeOutliers keeps exactly the days whose duration lies within
\* [Q1 - 1.5 * IQR, Q3 + 1.5 * IQR], Q1 and Q3 the values at the indices
\* floor(n * 0.25) and floor(n * 0.75), counted from 0, of the durations
\* sorted ascending; it keeps them in input order and reports removed =
\* n - kept; of the durations 60, 65, 62, 58, 500 it removes only 500.
C22_OutliersOutsideFences ==
    \A c \in Calls :
        (history[c].op = "removeOutliers" /\ Len(history[c].dayData) > 0) =>
            LET days == history[c].dayData
                n == Len(days)
                sorted == SortSeq([k \in 1..n |-> days[k].duration], LAMBDA a, b : a < b)
                Q1 == sorted[n \div 4 + 1]
                Q3 == sorted[(3 * n) \div 4 + 1]
                Within(day) ==
                    /\ 2 * Q1 - 3 * (Q3 - Q1) <= 2 * day.duration
                    /\ 2 * day.duration <= 2 * Q3 + 3 * (Q3 - Q1)
                kept == {k \in 1..n : Within(days[k])}
            IN  /\ Len(history[c].result.filtered) = Cardinality(kept)
                /\ \A k \in kept :
                        history[c].result.filtered[Cardinality({j \in kept : j <= k})] = days[k]
                /\ history[c].result.removed = n - Cardinality(kept)
                /\ MinutesOf(days) = <<60, 65, 62, 58, 500>> =>
                        /\ MinutesOf(history[c].result.filtered) = <<60, 65, 62, 58>>
                        /\ history[c].result.removed = 1

\* removeOutliers removed the day of 500 minutes from the five days
C22_Witness ==
    \E c \in Calls :
        /\ history[c].op = "removeOutliers"
        /\ MinutesOf(history[c].dayData) = <<60, 65, 62, 58, 500>>
        /\ history[c].result.removed = 1
        /\ Len(history[c].result.filtered) = 4

\* C23: for a non-empty input and bucketCount B >= 1, createDistributionData
\* returns either one bucket holding the full count, when all z-scores are
\* equal, or exactly B buckets whose frequencies sum to the number of
\* z-scores, so that every point is counted in one of the buckets 0..B-1;
\* the points of the maximum z-score are in bucket B-1.
C23_EveryPointInOneBucket ==
    \A c \in Calls :
        (history[c].op = "createDistributionData" /\ Len(history[c].zScores) > 0) =>
            LET zScores == history[c].zScores
                B == history[c].bucketCount
                n == Len(zScores)
                top == Maximum({ZNumerator(zScores[k].zScore) : k \in 1..n})
                result == history[c].result
            IN  IF \A k \in 1..n : ZNumerator(zScores[k].zScore) = top
                THEN Len(result) = 1 /\ result[1].frequency = n
                ELSE /\ Len(result) = B
                     /\ Sum([i \in 1..B |-> result[i].frequency]) = n
                     /\ result[B].frequency >=
                            Cardinality({k \in 1..n : ZNumerator(zScores[k].zScore) = top})

\* Three buckets were made of z-scores that differ, the maximum in the last
C23_Witness ==
    \E c \in Calls :
        /\ history[c].op = "createDistributionData"
        /\ history[c].bucketCount = 3
        /\ Len(history[c].result) = 3
        /\ history[c].result[3].frequency = 1
        /\ history[c].result[2].frequency = 1
        /\ history[c].result[1].frequency = 1

InBucket(durations, b) ==
    Cardinality({k \in 1..Len(durations) : durations[k] \div 1800000 = b})

\* C30: calculateStatistics reports as mode the midpoint of the 30-minute
\* bucket, floor(duration / 1800000), that holds the most durations, and
\* mode null whenever that bucket holds at most one duration.
C30_ModeIsFullestBucket ==
    \A c \in Calls :
        (history[c].op = "calculateStatistics" /\ Len(history[c].durations) > 0) =>
            LET durations == history[c].durations
                keys == {durations[k] \div 1800000 : k \in 1..Len(durations)}
                most == Maximum({InBucket(durations, b) : b \in keys})
                mode == history[c].result.mode
            IN  IF most <= 1 THEN mode = NullMode
                ELSE /\ mode.kind = "num"
                     /\ \E b \in keys :
                            /\ InBucket(durations, b) = most
                            /\ mode.val = b * 1800000 + 900000

\* Two durations of one bucket and one of another: the mode is 15 minutes;
\* the list is not sorted
C30_Witness ==
    \E c \in Calls :
        /\ history[c].op = "calculateStatistics"
        /\ history[c].durations = <<1500000, 4200000, 600000>>
        /\ history[c].result.mode = [kind |-> "num", val |-> 900000]

StoreError == "request.error"

\* How a call of importSessionsFromCSV ends when getAllSessions may reject:
\* the await of getAllSessions is in no try, and the promise of the import
\* rejects with the error of the store; a file that validateCSV rejects
\* returns before the read
ImportEnding(text, sessionStore, tagStore, firstId, writeFails, readFails) ==
    LET Ended(out) ==
            [ending |-> "returned", error |-> "", result |-> out.result,
             sessions |-> out.sessions, nextId |-> out.nextId, calls |-> out.calls]
    IN  IF readFails /\ validateCSV(text).isValid
        THEN [ending |-> "rejected", error |-> StoreError,
              result |-> Rejected(validateCSV(text), sessionStore, firstId).result,
              sessions |-> sessionStore, nextId |-> firstId,
              calls |-> <<[op |-> "getAllSessions"]>>]
        ELSE Ended(importSessionsFromCSV(text, sessionStore, tagStore, firstId, writeFails))

InitStoreFaults ==
    /\ content \in Contents
    /\ sessions \in InitialSessionStores
    /\ tags = DefaultTags
    /\ nextId = 3
    /\ history = <<>>
    /\ clock = 0
    /\ pc = Idle
    /\ pending = Idle

ImportWithFaults ==
    /\ Len(history) < MaxImports
    /\ \E readFails \in BOOLEAN :
       \E writeFails \in FaultSets(content, FaultCount(history)) :
       \E end \in {ImportEnding(content, sessions, tags, nextId, writeFails, readFails)} :
            /\ sessions' = end.sessions
            /\ nextId' = end.nextId
            /\ history' = Append(history,
                    [op |-> "import", content |-> content, writeFails |-> writeFails,
                     readFails |-> readFails, preSessions |-> sessions,
                     postSessions |-> end.sessions, ending |-> end.ending,
                     error |-> end.error, result |-> end.result, calls |-> end.calls])
    /\ UNCHANGED <<content, tags, clock, pc, pending>>

NextStoreFaults == ImportWithFaults

SpecStoreFaults == InitStoreFaults /\ [][NextStoreFaults]_vars

\* C26: an import call ends in one of two ways only, it returns an
\* ImportOutcome or it raises the tag-limit failure; a store fault while the
\* existing sessions are loaded or while a row is written never escapes as
\* another exception.
C26_ReturnsOrTagLimitOnly ==
    \A k \in Calls :
        history[k].op = "import" =>
            \/ history[k].ending = "returned"
            \/ history[k].ending = "rejected" /\ history[k].error = "TagLimitExceededError"

\* The row numbers of the rows an import wrote to the store
SavedRows(calls) ==
    {calls[c].row : c \in {c \in 1..Len(calls) : calls[c].op = "saveSession" /\ calls[c].ok}}

RowNumbers(rows) == {rows[r].rowNumber : r \in 1..Len(rows)}

\* C27: for every file that passes validation each data row is counted in
\* exactly one of success, failed and duplicate: successCount + failedCount
\* + duplicatesSkipped = sessionCount = the number of data rows, failedCount
\* and duplicatesSkipped are the lengths of failedRows and duplicateRows,
\* and the store gains successCount sessions.
C27_EveryRowCountedOnce ==
    \A k \in Calls :
        (history[k].op = "import" /\ history[k].result.isValid) =>
            LET result == history[k].result
                rows == 2..(Len(DataRowsOf(history[k].content)) + 1)
            IN  /\ result.successCount + result.failedCount + result.duplicatesSkipped
                        = result.sessionCount
                /\ result.sessionCount = Len(DataRowsOf(history[k].content))
                /\ result.failedCount = Len(result.failedRows)
                /\ result.duplicatesSkipped = Len(result.duplicateRows)
                /\ Cardinality(DOMAIN history[k].postSessions)
                        - Cardinality(DOMAIN history[k].preSessions) = result.successCount
                /\ result.successCount = Cardinality(SavedRows(history[k].calls))
                /\ Cardinality(RowNumbers(result.failedRows)) = result.failedCount
                /\ Cardinality(RowNumbers(result.duplicateRows)) = result.duplicatesSkipped
                /\ SavedRows(history[k].calls) \cup RowNumbers(result.failedRows)
                        \cup RowNumbers(result.duplicateRows) = rows

\* One import counted rows of the three kinds
C27_Witness ==
    \E k \in Calls :
        /\ history[k].op = "import"
        /\ history[k].result.isValid
        /\ history[k].result.sessionCount = 5
        /\ history[k].result.successCount = 2
        /\ history[k].result.failedCount = 1
        /\ history[k].result.duplicatesSkipped = 2

\* C28: every session written by importSessionsFromCSV has a title that is
\* the row's title trimmed and not empty, a duration of the row's seconds
\* times 1000 that is not negative, a rating within 0..5, the timestamp
\* parsed from the row's Date and Time, and the row's state.
C28_WrittenSessionsFollowTheirRow ==
    \A k \in Calls :
        history[k].op = "import" =>
            \A c \in 1..Len(history[k].calls) :
                (history[k].calls[c].op = "saveSession" /\ history[k].calls[c].ok) =>
                    LET session == history[k].calls[c].session
                        row == DataRowsOf(history[k].content)[history[k].calls[c].row - 1]
                    IN  /\ Len(session.title) > 0
                        /\ IsTrimmed(row[3], session.title)
                        /\ session.duration = ParseFloat(row[4]).val
                        /\ session.duration >= 0
                        /\ session.rating >= 0 /\ session.rating <= 5000
                        /\ parseDateDDMMYYYY(row[1], row[2]).ok
                        /\ session.timestamp = parseDateDDMMYYYY(row[1], row[2]).value.val
                        /\ session.state = row[8]
                        /\ session.state \in {"completed", "aborted", "not_started"}
                        /\ session \in {history[k].postSessions[id] :
                                            id \in DOMAIN history[k].postSessions}

\* The row 27/1/2026,9:00, B ,1.5,5,,work,aborted was written: title B,
\* 1500 ms, rating 5
C28_Witness ==
    \E k \in Calls :
        /\ history[k].op = "import"
        /\ \E c \in 1..Len(history[k].calls) :
            /\ history[k].calls[c].op = "saveSession"
            /\ history[k].calls[c].ok
            /\ history[k].calls[c].session.title = "B"
            /\ history[k].calls[c].session.duration = 1500
            /\ history[k].calls[c].session.rating = 5000
            /\ history[k].calls[c].session.state = "aborted"
            /\ history[k].calls[c].session.timestamp = T0

\* The errors of a validation that name the row rowNumber, in their order
ErrorsOfRow(errors, rowNumber) == SelectSeq(errors, LAMBDA e : e.row = rowNumber)

\* C29: validateCSV accumulates the errors of all data rows: a data row that
\* has not 8 cells adds exactly one error, which names its row number (the
\* first data row is row 2), and none of its fields is checked; every other
\* data row is validated in full; isValid is true exactly when the list of
\* errors is empty.
C29_ErrorsAccumulateAcrossRows ==
    \A k \in Calls :
        history[k].op = "validateCSV" =>
            LET result == history[k].result
                rows == ParseCSV(history[k].content)
            IN  /\ result.isValid <=> Len(result.errors) = 0
                /\ (Len(rows) > 1 /\ rows[1] = EXPECTED_HEADERS) =>
                    /\ \A r \in 2..Len(rows) :
                        ErrorsOfRow(result.errors, r) =
                            IF Len(rows[r]) # 8
                            THEN <<RowError(r, "Expected 8 columns")>>
                            ELSE ValidateRow(rows[r], r)
                    /\ \A e \in 1..Len(result.errors) : result.errors[e].row \in 2..Len(rows)
                    /\ \A e \in 1..(Len(result.errors) - 1) :
                        result.errors[e].row <= result.errors[e + 1].row

\* A row of nine cells with a rating out of range gave the one error of its
\* cell count, and the row after it the error of its rating
C29_Witness ==
    \E k \in Calls :
        /\ history[k].op = "validateCSV"
        /\ history[k].content = Header \o "\n" \o RowLong \o "\n" \o RowBadRating
        /\ history[k].result.errors =
                <<RowError(2, "Expected 8 columns"),
                  RowError(3, "Rating must be a number between 0 and 5")>>
        /\ ~history[k].result.isValid

\* C31: of fewer than 4 days removeOutliers keeps every day, in their order,
\* and reports 0 removed; of no days it returns no days and 0 removed
C31_FewDaysAllKept ==
    \A c \in 1..Len(history) :
        (history[c].op = "removeOutliers" /\ Len(history[c].dayData) < 4) =>
            /\ history[c].result.filtered = history[c].dayData
            /\ history[c].result.removed = 0

\* removeOutliers was called on three days of 10, 10 and 70 minutes
C31_Witness ==
    \E c \in 1..Len(history) :
        /\ history[c].op = "removeOutliers"
        /\ MinutesOf(history[c].dayData) = <<10, 10, 70>>
        /\ Len(history[c].result.filtered) = 3

\* removeOutliers was called on a list of no days
C31_WitnessEmpty ==
    \E c \in 1..Len(history) :
        /\ history[c].op = "removeOutliers"
        /\ history[c].dayData = <<>>
        /\ history[c].result = [filtered |-> <<>>, removed |-> 0]

\* The total of the day with the given date
TotalOf(dayTotals, date) ==
    dayTotals[CHOOSE k \in 1..Len(dayTotals) : dayTotals[k].date = date].total

\* C32: two days with the same total have the same percentile, and
\* filterDaysByCompleteness keeps both or drops both, whatever the threshold
\* and the order in which the days entered the totals
C32_EqualTotalsTreatedAlike ==
    \A c \in 1..Len(history) :
        history[c].op = "filterDaysByCompleteness" =>
            LET call == history[c]
                percentiles == calculateCompletenessPercentiles(call.dayTotals)
                Kept(i) == \E k \in 1..Len(call.result) : call.result[k] = call.dayData[i]
            IN  \A i, j \in 1..Len(call.dayData) :
                    TotalOf(call.dayTotals, call.dayData[i].date)
                        = TotalOf(call.dayTotals, call.dayData[j].date) =>
                        /\ percentiles[call.dayData[i].date] = percentiles[call.dayData[j].date]
                        /\ Kept(i) <=> Kept(j)

(***************************************************************************)
(* The lifecycle specification: the handlers of App (start, pause, resume, *)
(* stop, save, discard, cancel) on the sessions store and the config       *)
(* store. A handler is a task that runs from one await to the next; the    *)
(* tasks in flight interleave at their awaits                              *)
(***************************************************************************)
MaxHandlers == 2    \* handlers in flight at once
MaxCalls == 4       \* calls of the asynchronous handlers in a behaviour
MaxTime == 4        \* the last value of Date.now()

\* The session initialize, handleSaveSession and handleDiscardSession build
AppSession(id, timestamp) ==
    [id |-> id, title |-> "", duration |-> 0, rating |-> 0, comment |-> "",
     timestamp |-> timestamp, state |-> "not_started"]

\* seq without its i-th element
Without(seq, i) == [k \in 1..Len(seq) - 1 |-> IF k < i THEN seq[k] ELSE seq[k + 1]]

\* A handler called with the currentSession of the last render; at is the
\* Date.now() it read, last and value are its local constants
Task(op, at, session, step) ==
    [op |-> op, pc |-> step, session |-> session, fresh |-> session,
     at |-> at, last |-> 0, value |-> 0]

\* The state initialize leaves on an empty database: one not_started
\* session, which is the current one; pauseTime and lastPausedTimestamp are
\* unset, which the handlers read as 0 and as null (0 here)
InitLifecycle ==
    /\ sessions = StoreOf({AppSession(1, 1)})
    /\ nextId = 1
    /\ clock = 1
    /\ pending = [currentSession |-> AppSession(1, 1), isRunning |-> FALSE,
                  isPaused |-> FALSE, showDialog |-> FALSE, pauseTime |-> 0,
                  lastPausedTimestamp |-> 0, calls |-> 0]
    /\ pc = <<>>
    /\ history = <<>>
    /\ content = ""
    /\ tags = DefaultTags

\* Time passes
Tick ==
    /\ clock < MaxTime
    /\ clock' = clock + 1
    /\ UNCHANGED <<sessions, nextId, pending, pc, history, content, tags>>

\* A handler can be called: the dialog is modal, so the buttons of the
\* stopwatch work while it is closed and its own buttons while it is open
CanCall(dialog) ==
    /\ pending.showDialog = dialog
    /\ pending.calls < MaxCalls
    /\ Len(pc) < MaxHandlers

Called(task) ==
    /\ pc' = Append(pc, task)
    /\ pending' = [pending EXCEPT !.calls = pending.calls + 1]

\* handleStart up to await saveSession(updatedSession)
handleStart ==
    /\ CanCall(FALSE)
    /\ ~pending.isRunning /\ ~pending.isPaused
    /\ Called(Task("start", clock,
                   [pending.currentSession EXCEPT !.timestamp = clock, !.state = "active"],
                   "check"))
    /\ history' = Append(history, [op |-> "start", id |-> pending.currentSession.id,
                                   at |-> clock])
    /\ UNCHANGED <<sessions, nextId, clock, content, tags>>

\* handlePause up to await saveConfig("lastPausedTimestamp", Date.now())
handlePause ==
    /\ CanCall(FALSE)
    /\ pending.isRunning
    /\ Called(Task("pause", clock, pending.currentSession, "saveLastPaused"))
    /\ history' = Append(history, [op |-> "pause", id |-> pending.currentSession.id,
                                   at |-> clock])
    /\ UNCHANGED <<sessions, nextId, clock, content, tags>>

\* handleResume up to await getConfig("lastPausedTimestamp")
handleResume ==
    /\ CanCall(FALSE)
    /\ ~pending.isRunning /\ pending.isPaused
    /\ Called(Task("resume", clock, pending.currentSession, "getLastPaused"))
    /\ UNCHANGED <<sessions, nextId, clock, history, content, tags>>

\* handleStopwatchComplete, which the stop button calls once the timer has
\* started: the dialog opens
handleStopwatchComplete ==
    /\ ~pending.showDialog
    /\ pending.isRunning \/ pending.isPaused
    /\ pending' = [pending EXCEPT !.showDialog = TRUE]
    /\ UNCHANGED <<sessions, nextId, clock, pc, history, content, tags>>

\* handleCancelSession
handleCancelSession ==
    /\ pending.showDialog
    /\ pending' = [pending EXCEPT !.showDialog = FALSE]
    /\ UNCHANGED <<sessions, nextId, clock, pc, history, content, tags>>

\* handleSaveSession up to await getConfig("pauseTime")
handleSaveSession ==
    /\ CanCall(TRUE)
    /\ Called(Task("save", clock, pending.currentSession, "getPauseTime"))
    /\ UNCHANGED <<sessions, nextId, clock, history, content, tags>>

\* handleDiscardSession up to await getConfig("pauseTime")
handleDiscardSession ==
    /\ CanCall(TRUE)
    /\ Called(Task("discard", clock, pending.currentSession, "getPauseTime"))
    /\ UNCHANGED <<sessions, nextId, clock, history, content, tags>>

\* handlePause: saveConfig("lastPausedTimestamp", ...) resolves, and
\* saveSession is called with the session as paused
SaveLastPaused(i) ==
    /\ pc[i].pc = "saveLastPaused"
    /\ pending' = [pending EXCEPT !.lastPausedTimestamp = pc[i].at]
    /\ pc' = [pc EXCEPT ![i].pc = "check", ![i].session.state = "paused"]
    /\ UNCHANGED <<sessions, nextId, clock, history, content, tags>>

\* handleResume: getConfig("lastPausedTimestamp") resolves
GetLastPaused(i) ==
    /\ pc[i].pc = "getLastPaused"
    /\ pc' = [pc EXCEPT ![i].pc = "getPauseTime", ![i].last = pending.lastPausedTimestamp]
    /\ UNCHANGED <<sessions, nextId, clock, pending, history, content, tags>>

\* getConfig("pauseTime") resolves. handleResume adds the pause that ends
\* now, if a pause began; handleSaveSession and handleDiscardSession compute
\* finalDuration and call saveSession with the session completed or aborted
GetPauseTime(i) ==
    /\ pc[i].pc = "getPauseTime"
    /\ IF pc[i].op = "resume"
       THEN IF pc[i].last # 0
            THEN /\ pc' = [pc EXCEPT ![i].pc = "savePauseTime",
                                     ![i].value = pending.pauseTime + (clock - pc[i].last)]
                 /\ history' = Append(history, [op |-> "resume", id |-> pc[i].session.id,
                                                at |-> clock])
            ELSE /\ pc' = [pc EXCEPT ![i].pc = "check", ![i].session.state = "active"]
                 /\ history' = history
       ELSE /\ pc' = [pc EXCEPT ![i].pc = "writeFinal", ![i].at = clock,
                                ![i].session.duration =
                                    clock - pc[i].session.timestamp - pending.pauseTime,
                                ![i].session.state =
                                    IF pc[i].op = "save" THEN "completed" ELSE "aborted"]
            /\ history' = history
    /\ UNCHANGED <<sessions, nextId, clock, pending, content, tags>>

\* handleResume: saveConfig("pauseTime", currentPauseTime + pauseDuration)
\* resolves
SavePauseTime(i) ==
    /\ pc[i].pc = "savePauseTime"
    /\ pending' = [pending EXCEPT !.pauseTime = pc[i].value]
    /\ pc' = [pc EXCEPT ![i].pc = "clearLastPaused"]
    /\ UNCHANGED <<sessions, nextId, clock, history, content, tags>>

\* saveConfig("lastPausedTimestamp", null) resolves. handleResume calls
\* saveSession with the session as active; handleSaveSession and
\* handleDiscardSession build the new session and call saveSession with it
ClearLastPaused(i) ==
    /\ pc[i].pc = "clearLastPaused"
    /\ pending' = [pending EXCEPT !.lastPausedTimestamp = 0]
    /\ IF pc[i].op = "resume"
       THEN /\ pc' = [pc EXCEPT ![i].pc = "check", ![i].session.state = "active"]
            /\ nextId' = nextId
       ELSE /\ pc' = [pc EXCEPT ![i].pc = "writeNew",
                                ![i].fresh = AppSession(nextId + 1, clock)]
            /\ nextId' = nextId + 1
    /\ UNCHANGED <<sessions, clock, history, content, tags>>

\* saveSession of an active or paused session: the readonly transaction.
\* With another session active or paused the promise is rejected and the
\* handler ends in its catch
Check(i) ==
    /\ pc[i].pc = "check"
    /\ IF {s \in LiveSessions(sessions) : s.id # pc[i].session.id} # {}
       THEN pc' = Without(pc, i)
       ELSE pc' = [pc EXCEPT ![i].pc = "write"]
    /\ UNCHANGED <<sessions, nextId, clock, pending, history, content, tags>>

\* saveSession of an active or paused session: the readwrite transaction,
\* and the rest of handleStart, handlePause or handleResume
Write(i) ==
    /\ pc[i].pc = "write"
    /\ sessions' = Put(sessions, pc[i].session.id, pc[i].session)
    /\ pending' = [pending EXCEPT !.currentSession = pc[i].session,
                                  !.isRunning = (pc[i].op # "pause"),
                                  !.isPaused = (pc[i].op = "pause")]
    /\ pc' = Without(pc, i)
    /\ UNCHANGED <<nextId, clock, history, content, tags>>

\* saveSession(completedSession) or saveSession(abortedSession) resolves
WriteFinal(i) ==
    /\ pc[i].pc = "writeFinal"
    /\ sessions' = Put(sessions, pc[i].session.id, pc[i].session)
    /\ history' = Append(history, [op |-> pc[i].op, id |-> pc[i].session.id,
                                   at |-> pc[i].at, timestamp |-> pc[i].session.timestamp,
                                   duration |-> pc[i].session.duration])
    /\ pc' = [pc EXCEPT ![i].pc = "resetPauseTime"]
    /\ UNCHANGED <<nextId, clock, pending, content, tags>>

\* saveConfig("pauseTime", 0) resolves
ResetPauseTime(i) ==
    /\ pc[i].pc = "resetPauseTime"
    /\ pending' = [pending EXCEPT !.pauseTime = 0]
    /\ pc' = [pc EXCEPT ![i].pc = "clearLastPaused"]
    /\ UNCHANGED <<sessions, nextId, clock, history, content, tags>>

\* saveSession(newSession) resolves: the new session is the current one and
\* the timer is reset. handleDiscardSession closes the dialog and ends;
\* handleSaveSession awaits getSessionsByState("completed")
WriteNew(i) ==
    /\ pc[i].pc = "writeNew"
    /\ sessions' = Put(sessions, pc[i].fresh.id, pc[i].fresh)
    /\ pending' = [pending EXCEPT !.currentSession = pc[i].fresh,
                                  !.isRunning = FALSE, !.isPaused = FALSE,
                                  !.showDialog = (pc[i].op = "save" /\ pending.showDialog)]
    /\ IF pc[i].op = "save"
       THEN pc' = [pc EXCEPT ![i].pc = "refresh"]
       ELSE pc' = Without(pc, i)
    /\ UNCHANGED <<nextId, clock, history, content, tags>>

\* handleSaveSession: getSessionsByState resolves, the dialog closes
Refresh(i) ==
    /\ pc[i].pc = "refresh"
    /\ pending' = [pending EXCEPT !.showDialog = FALSE]
    /\ pc' = Without(pc, i)
    /\ UNCHANGED <<sessions, nextId, clock, history, content, tags>>

NextLifecycle ==
    \/ Tick
    \/ handleStart
    \/ handlePause
    \/ handleResume
    \/ handleStopwatchComplete
    \/ handleCancelSession
    \/ handleSaveSession
    \/ handleDiscardSession
    \/ \E i \in 1..Len(pc) : SaveLastPaused(i)
    \/ \E i \in 1..Len(pc) : GetLastPaused(i)
    \/ \E i \in 1..Len(pc) : GetPauseTime(i)
    \/ \E i \in 1..Len(pc) : SavePauseTime(i)
    \/ \E i \in 1..Len(pc) : ClearLastPaused(i)
    \/ \E i \in 1..Len(pc) : Check(i)
    \/ \E i \in 1..Len(pc) : Write(i)
    \/ \E i \in 1..Len(pc) : WriteFinal(i)
    \/ \E i \in 1..Len(pc) : ResetPauseTime(i)
    \/ \E i \in 1..Len(pc) : WriteNew(i)
    \/ \E i \in 1..Len(pc) : Refresh(i)

SpecLifecycle == InitLifecycle /\ [][NextLifecycle]_vars

\* Task i of pc takes its last step
Completes(i) == i \in 1..Len(pc) /\ pc' = Without(pc, i)

\* C33: when handleSaveSession or handleDiscardSession completes, the
\* session it was called with is stored as completed (Save) or aborted
\* (Discard), the new not_started session it built is stored and is the
\* current session, no stored session is active or paused, and the timer is
\* neither running nor paused
C33_SaveAndDiscardEndTheSession ==
    [][\A i \in 1..Len(pc) :
        (pc[i].op \in {"save", "discard"} /\ pc[i].pc \in {"refresh", "writeNew"}
            /\ Completes(i)) =>
            /\ pc[i].session.id \in DOMAIN sessions'
            /\ sessions'[pc[i].session.id].state =
                    (IF pc[i].op = "save" THEN "completed" ELSE "aborted")
            /\ pc[i].fresh.state = "not_started"
            /\ pc[i].fresh.id \in DOMAIN sessions'
            /\ sessions'[pc[i].fresh.id] = pc[i].fresh
            /\ pending'.currentSession = pc[i].fresh
            /\ LiveSessions(sessions') = {}
            /\ ~pending'.isRunning /\ ~pending'.isPaused]_vars

\* C34: a session stored as completed or aborted is never written again
\* with another state, whichever handlers are in flight
C34_CompletedAndAbortedAreTerminal ==
    [][\A id \in DOMAIN sessions :
        sessions[id].state \in {"completed", "aborted"} =>
            sessions'[id].state = sessions[id].state]_vars

\* The time the pause that begins with event k of the log ends: the next
\* resume of the session, or the time of the save
PauseEnd(k, saved) ==
    LET later == {r \in k + 1..saved - 1 :
                    history[r].op = "resume" /\ history[r].id = history[k].id}
    IN  IF later = {} THEN history[saved].at
        ELSE history[CHOOSE r \in later : \A q \in later : r <= q].at

\* The sum of the paused intervals of the session saved by event saved
RECURSIVE PausedTime(_, _)
PausedTime(k, saved) ==
    IF k = 0 THEN 0
    ELSE PausedTime(k - 1, saved)
         + (IF history[k].op = "pause" /\ history[k].id = history[saved].id
            THEN PauseEnd(k, saved) - history[k].at ELSE 0)

\* C35: the duration stored with a completed or aborted session is the time
\* of the save less the start timestamp less the sum of the paused
\* intervals, the pause that is still open at the save included
C35_DurationIsActiveTime ==
    \A saved \in 1..Len(history) :
        history[saved].op \in {"save", "discard"} =>
            history[saved].duration =
                history[saved].at - history[saved].timestamp - PausedTime(saved - 1, saved)

(***************************************************************************)
(* The stopwatch specification: the Stopwatch component under the App that *)
(* keeps the timer in startTime and accumulatedTime. An action is one      *)
(* event and the effects that run after it; 0 stands for the null of       *)
(* startTime                                                               *)
(***************************************************************************)
MaxMinutes == 2      \* minutes of Date.now() in a behaviour
MaxCompletes == 2    \* calls of onComplete in a behaviour

MsPerHour == 3600000

DEFAULT_STOPGAP == 3600000

\* Texts of the number input of the dialog with the unit selected
StopgapInputs ==
    ({"", "0", "0.5", "1", "2", "1440", "1500", "-1"} \X {"minutes"})
        \cup ({"", "0", "1", "24", "25"} \X {"hours"})

\* Faulty variant of ClampedMs: the limit is applied as it was typed
UnclampedMs(milliseconds) == milliseconds

\* Math.min(milliseconds, 24 * 60 * 60 * 1000)
ClampedMs(milliseconds) ==
    IF milliseconds < 24 * 60 * 60 * 1000 THEN milliseconds ELSE 24 * 60 * 60 * 1000

\* parseFloat(stopgapValue) || 0 in the unit, as milliseconds; the value is
\* held in thousandths
StopgapMs(stopgapValue, stopgapUnit) ==
    LET Ms(value) ==
            IF value.kind # "num" THEN 0
            ELSE IF stopgapUnit = "hours" THEN value.val * 60 * 60 ELSE value.val * 60
    IN  Ms(ParseFloat(stopgapValue))

\* The effect of Stopwatch that stops the timer at the limit
StopgapReached(s) == s.isRunning /\ s.sessionStopgap > 0 /\ s.time >= s.sessionStopgap

\* One render and its effects, in their order: the stopgap effect of
\* Stopwatch, then the effects of App (interval, pause and resume, persisted
\* timer state). The effects read the state of the render, and of two
\* setters of one state the later wins
Round(r, now) ==
    LET s == r.s
        stop == StopgapReached(s)
        pausing == s.isPaused /\ s.startTime # 0
        starting == s.isRunning /\ ~s.isPaused /\ s.startTime = 0
        stopped == ~(s.isRunning \/ s.isPaused)
    IN  [s |-> [s EXCEPT
                !.isRunning = IF stop THEN FALSE ELSE @,
                !.isPaused = IF stop THEN FALSE ELSE @,
                !.sessionStopgap = IF stop THEN s.defaultStopgap ELSE @,
                !.pendingDuration = IF stop THEN s.time ELSE @,
                !.showDialog = IF stop THEN TRUE ELSE @,
                !.time = IF pausing THEN now - s.startTime + s.accumulatedTime
                         ELSE IF stop THEN 0 ELSE @,
                !.accumulatedTime = IF stopped THEN 0
                                    ELSE IF pausing THEN now - s.startTime + s.accumulatedTime
                                    ELSE @,
                !.startTime = IF stopped \/ pausing THEN 0
                              ELSE IF starting THEN now ELSE @],
         log |-> IF stop
                 THEN Append(r.log, [duration |-> s.time, limit |-> s.sessionStopgap,
                                     auto |-> TRUE])
                 ELSE r.log]

\* The renders that follow an event, until the state is stable
Settled(s, log, now) == Round(Round(Round([s |-> s, log |-> log], now), now), now)

Rendered(event, s, log, now) ==
    /\ pc' = event
    /\ pending' = Settled(s, log, now).s
    /\ history' = Settled(s, log, now).log

InitStopwatch ==
    /\ pending = [time |-> 0, isRunning |-> FALSE, isPaused |-> FALSE, startTime |-> 0,
                  accumulatedTime |-> 0, sessionStopgap |-> DEFAULT_STOPGAP,
                  defaultStopgap |-> DEFAULT_STOPGAP, showDialog |-> FALSE,
                  pendingDuration |-> 0]
    /\ history = <<>>
    /\ clock = 0
    /\ pc = "mount"
    /\ content = ""
    /\ sessions = StoreOf({})
    /\ tags = DefaultTags
    /\ nextId = 0

\* A minute passes; the callback of the interval, if one is set, shows the
\* elapsed time
IntervalTick ==
    /\ clock < MaxMinutes * MsPerMinute
    /\ clock' = clock + MsPerMinute
    /\ Rendered("tick",
                IF pending.isRunning /\ ~pending.isPaused /\ pending.startTime # 0
                THEN [pending EXCEPT !.time = clock' - pending.startTime
                                              + pending.accumulatedTime]
                ELSE pending,
                history, clock')
    /\ UNCHANGED <<content, sessions, tags, nextId>>

\* The round button of the stopwatch: start, pause or resume
handleStartPause ==
    /\ ~pending.showDialog
    /\ Len(history) < MaxCompletes
    /\ Rendered("handleStartPause",
                IF ~pending.isRunning /\ ~pending.isPaused
                THEN [pending EXCEPT !.isRunning = TRUE]
                ELSE IF pending.isRunning
                THEN [pending EXCEPT !.isRunning = FALSE, !.isPaused = TRUE]
                ELSE [pending EXCEPT !.isRunning = TRUE],
                history, clock)
    /\ UNCHANGED <<clock, content, sessions, tags, nextId>>

\* The square button, shown once the timer has started
handleStop ==
    /\ ~pending.showDialog
    /\ pending.time > 0 \/ pending.isRunning
    /\ Len(history) < MaxCompletes
    /\ Rendered("handleStop",
                [pending EXCEPT !.isRunning = FALSE, !.time = 0, !.isPaused = FALSE,
                                !.sessionStopgap = pending.defaultStopgap,
                                !.pendingDuration = pending.time, !.showDialog = TRUE],
                Append(history, [duration |-> pending.time,
                                 limit |-> pending.sessionStopgap, auto |-> FALSE]),
                clock)
    /\ UNCHANGED <<clock, content, sessions, tags, nextId>>

\* Apply in the limit dialog, and handleStopgapChange of App
handleSaveStopgap ==
    /\ ~pending.showDialog
    /\ \E input \in StopgapInputs :
        \E clampedMs \in {ClampedMs(StopgapMs(input[1], input[2]))} :
            Rendered("handleSaveStopgap",
                     [pending EXCEPT !.sessionStopgap = clampedMs,
                                     !.defaultStopgap = clampedMs],
                     history, clock)
    /\ UNCHANGED <<clock, content, sessions, tags, nextId>>

\* Save, Cancel or Discard in the session dialog
CloseDialog ==
    /\ pending.showDialog
    /\ Rendered("closeDialog",
                [pending EXCEPT !.showDialog = FALSE, !.pendingDuration = 0],
                history, clock)
    /\ UNCHANGED <<clock, content, sessions, tags, nextId>>

NextStopwatch ==
    \/ IntervalTick
    \/ handleStartPause
    \/ handleStop
    \/ handleSaveStopgap
    \/ CloseDialog

SpecStopwatch == InitStopwatch /\ [][NextStopwatch]_vars

\* C36: isRunning and isPaused are never both true; the round button leaves
\* the timer running and not paused when it starts it, paused and not running
\* when it pauses it, and running and not paused when it resumes it
C36_RunningOrPausedNeverBoth ==
    [][/\ ~(pending'.isRunning /\ pending'.isPaused)
       /\ pc' = "handleStartPause" =>
            IF pending.isRunning
            THEN ~pending'.isRunning /\ pending'.isPaused
            ELSE pending'.isRunning /\ ~pending'.isPaused]_vars

\* C37: with a limit above 0 the timer never stays running at or past its
\* limit: the step in which the shown time reaches it calls onComplete once,
\* with that time, and leaves the time at 0 and the timer neither running nor
\* paused; with the limit 0 no such call is made; and a limit applied in the
\* dialog is at most 24 hours
C37_StopsAtTheLimit ==
    [][/\ ~StopgapReached(pending')
       /\ Len(history') <= Len(history) + 1
       /\ (Len(history') > Len(history) /\ history'[Len(history')].auto) =>
            /\ history'[Len(history')].limit > 0
            /\ history'[Len(history')].duration >= history'[Len(history')].limit
            /\ history'[Len(history')].duration =
                    (IF pc' = "tick"
                     THEN clock' - pending.startTime + pending.accumulatedTime
                     ELSE pending.time)
            /\ pending'.time = 0
            /\ ~pending'.isRunning /\ ~pending'.isPaused
       /\ pc' = "handleSaveStopgap" =>
            /\ pending'.sessionStopgap <= 24 * MsPerHour
            /\ pending'.defaultStopgap <= 24 * MsPerHour]_vars

\* The timer reached a limit of one minute and onComplete was called with
\* the minute
C37_Witness ==
    /\ pc = "tick"
    /\ Len(history) = 1
    /\ history[1] = [duration |-> MsPerMinute, limit |-> MsPerMinute, auto |-> TRUE]
    /\ pending.time = 0 /\ ~pending.isRunning /\ pending.showDialog

(***************************************************************************)
(* The migration specification: migrateFromLocalStorage, called by every   *)
(* initDatabase that finds old keys and no flag. localStorage.getItem is   *)
(* <<>> for null and <<v>> for the value v. A call is a task that runs     *)
(* block by block; any write to the database may fail                      *)
(***************************************************************************)
MaxMigrations == 2    \* calls of migrateFromLocalStorage in a behaviour

\* A session as the old App stored it, and the session the loop writes
OldSession(id) ==
    [id |-> id, title |-> "old", duration |-> MsPerMinute, rating |-> 3,
     comment |-> "", timestamp |-> 0]

MigratedSession(session) ==
    [id |-> session.id, title |-> session.title, duration |-> session.duration,
     rating |-> session.rating, comment |-> session.comment,
     timestamp |-> session.timestamp, state |-> "completed"]

\* The session built from the old timer state; the state has no
\* initialTimestamp
TimerSession(id, state, now) ==
    [id |-> id, title |-> "", duration |-> 0, rating |-> 0, comment |-> "",
     timestamp |-> now,
     state |-> IF state.isRunning THEN "active"
               ELSE IF state.isPaused THEN "paused" ELSE "not_started"]

\* The values of the old keys
OldLocalStorages ==
    [agamotto_sessions : {<<>>, <<<<>>>>, <<<<OldSession(101), OldSession(102)>>>>},
     agamotto_stopgap : {<<>>, <<"1800000">>},
     agamotto_timer_state : {<<>>, <<[isRunning |-> TRUE, isPaused |-> FALSE]>>,
                             <<[isRunning |-> FALSE, isPaused |-> TRUE]>>},
     agamotto_migration_completed : {<<>>, <<"true">>}]

\* The old keys removed and the flag set
Migrated(local) ==
    [agamotto_sessions |-> <<>>, agamotto_stopgap |-> <<>>,
     agamotto_timer_state |-> <<>>, agamotto_migration_completed |-> <<"true">>]

\* Faulty variant of AfterBackup: the keys are cleared whether or not the
\* backup was stored
AfterBackupAnyway(local, stored) == Migrated(local)

\* localStorage after await saveConfig("localStorage_backup", backup): the
\* keys are cleared and the flag is set once it resolved
AfterBackup(local, stored) == IF stored THEN Migrated(local) ELSE local

\* db says whether the name db is bound in the function: the copy in
\* lib/db.ts binds it, appMigrationUtil.ts does not, and there the two
\* direct writes to the sessions store throw into their catch
InitMigration ==
    /\ pending \in [local : OldLocalStorages, db : BOOLEAN,
                    config : {[defaultStopgap |-> <<>>, pauseTime |-> <<>>,
                               lastPausedTimestamp |-> <<>>, activeSessionId |-> <<>>,
                               localStorage_backup |-> <<>>]},
                    calls : {0}]
    /\ sessions = StoreOf({})
    /\ pc = <<>>
    /\ history = <<>>
    /\ nextId = 0
    /\ clock = 1
    /\ content = ""
    /\ tags = DefaultTags

\* migrateFromLocalStorage up to its first await: with the flag set it
\* returns, else it reads the old sessions
migrateFromLocalStorage ==
    /\ pending.calls < MaxMigrations
    /\ pending' = [pending EXCEPT !.calls = pending.calls + 1]
    /\ IF pending.local.agamotto_migration_completed # <<>>
       THEN /\ pc' = pc
            /\ history' = Append(history, "skipped")
       ELSE /\ pc' = Append(pc, [pc |-> "sessions", read |-> pending.local.agamotto_sessions])
            /\ history' = Append(history, "started")
    /\ UNCHANGED <<sessions, nextId, clock, content, tags>>

RECURSIVE PutAll(_, _)
PutAll(store, records) ==
    IF Len(records) = 0 THEN store
    ELSE PutAll(Put(store, Head(records).id, MigratedSession(Head(records))), Tail(records))

\* Block 1: the old sessions are written one by one; a failure ends the
\* loop in the catch of the block. Then the old stopgap is read
MigrateSessions(i) ==
    /\ pc[i].pc = "sessions"
    /\ \E written \in 0..(IF pc[i].read = <<>> THEN 0 ELSE Len(pc[i].read[1])) :
        /\ pending.db \/ written = 0
        /\ sessions' = PutAll(sessions, IF written = 0 THEN <<>>
                                        ELSE SubSeq(pc[i].read[1], 1, written))
    /\ pc' = [pc EXCEPT ![i] = [pc |-> "stopgap", read |-> pending.local.agamotto_stopgap]]
    /\ UNCHANGED <<pending, history, nextId, clock, content, tags>>

\* Block 2: saveConfig("defaultStopgap", parseInt(oldStopgap, 10)) resolves
\* or is rejected into the catch. Then the old timer state is read
MigrateStopgap(i) ==
    /\ pc[i].pc = "stopgap"
    /\ \E stored \in BOOLEAN :
        pending' = IF stored /\ pc[i].read # <<>>
                   THEN [pending EXCEPT !.config.defaultStopgap =
                                            <<ParseInt(pc[i].read[1]).val>>]
                   ELSE pending
    /\ pc' = [pc EXCEPT ![i] = [pc |-> "timerState",
                                read |-> pending.local.agamotto_timer_state]]
    /\ UNCHANGED <<sessions, history, nextId, clock, content, tags>>

\* Block 3: the session of the timer state is put without the check of
\* saveSession, then pauseTime, lastPausedTimestamp and activeSessionId are
\* saved; a failure skips the rest of the block. Then the backup is built
MigrateTimerState(i) ==
    /\ pc[i].pc = "timerState"
    /\ \E stored \in BOOLEAN :
        IF stored /\ pending.db /\ pc[i].read # <<>>
        THEN /\ sessions' = Put(sessions, nextId + 1,
                                TimerSession(nextId + 1, pc[i].read[1], clock))
             /\ nextId' = nextId + 1
             /\ pending' = [pending EXCEPT !.config.pauseTime = <<0>>,
                                           !.config.lastPausedTimestamp = <<0>>,
                                           !.config.activeSessionId = <<nextId + 1>>]
        ELSE UNCHANGED <<sessions, nextId, pending>>
    /\ pc' = [pc EXCEPT ![i] = [pc |-> "backup",
                                read |-> <<[sessions |-> pending.local.agamotto_sessions,
                                            stopgap |-> pending.local.agamotto_stopgap,
                                            timerState |-> pending.local.agamotto_timer_state]>>]]
    /\ UNCHANGED <<history, clock, content, tags>>

\* Blocks 4 and 5: saveConfig("localStorage_backup", backup) resolves, the
\* keys are removed and the flag is set; or it is rejected and the function
\* throws
StoreBackup(i) ==
    /\ pc[i].pc = "backup"
    /\ \E stored \in BOOLEAN :
        /\ pending' = [pending EXCEPT
                        !.config.localStorage_backup = IF stored THEN pc[i].read ELSE @,
                        !.local = AfterBackup(pending.local, stored)]
        /\ history' = Append(history, IF stored THEN "completed" ELSE "failed")
    /\ pc' = Without(pc, i)
    /\ UNCHANGED <<sessions, nextId, clock, content, tags>>

NextMigration ==
    \/ migrateFromLocalStorage
    \/ \E i \in 1..Len(pc) : MigrateSessions(i)
    \/ \E i \in 1..Len(pc) : MigrateStopgap(i)
    \/ \E i \in 1..Len(pc) : MigrateTimerState(i)
    \/ \E i \in 1..Len(pc) : StoreBackup(i)

SpecMigration == InitMigration /\ [][NextMigration]_vars

\* The old keys of localStorage
OldKeys == {"agamotto_sessions", "agamotto_stopgap", "agamotto_timer_state"}

\* The value the backup holds for an old key
BackedUp(backup, key) ==
    CASE key = "agamotto_sessions" -> backup.sessions
      [] key = "agamotto_stopgap" -> backup.stopgap
      [] key = "agamotto_timer_state" -> backup.timerState

\* C38: a step that removes an old key or sets the flag is a step after
\* which the config store holds a backup; a step in which the backup is not
\* stored leaves localStorage as it was; and a call made with the flag set
\* changes neither localStorage nor the stores and starts nothing
C38_ClearedOnlyAfterBackup ==
    [][/\ pending'.local # pending.local =>
            /\ pending'.config.localStorage_backup # <<>>
            /\ pending'.local = Migrated(pending.local)
       /\ pending'.config.localStorage_backup = <<>> => pending'.local = pending.local
       /\ \A key \in OldKeys :
            (pending.local[key] # <<>> /\ pending'.local[key] = <<>>) =>
                BackedUp(pending'.config.localStorage_backup[1], key) = pending.local[key]
       /\ (pending.local.agamotto_migration_completed # <<>>
                /\ pending'.calls > pending.calls) =>
            /\ pending'.local = pending.local
            /\ pending'.config = pending.config
            /\ sessions' = sessions
            /\ pc' = pc]_vars

\* A migration stored its backup and cleared keys that held values, after
\* another one had failed to store it
C38_Witness ==
    /\ Len(history) = 4
    /\ history[3] = "failed" /\ history[4] = "completed"
    /\ pending.local = Migrated(pending.local)
    /\ pending.config.localStorage_backup # <<>>
    /\ pending.config.localStorage_backup[1].stopgap = <<"1800000">>

(***************************************************************************)
(* The contention specification: saveSession calls that overlap, next to   *)
(* the migration. A saveSession of an active or paused session reads the   *)
(* by_state index in a readonly transaction and puts the session in a      *)
(* readwrite transaction that the callback of the read opens; a call whose *)
(* read was answered before the other's write began sees the store without *)
(* that write                                                              *)
(***************************************************************************)
MaxSaves == 2    \* calls of saveSession in a behaviour

\* The ids the callers give their sessions, and a session of the App
CallerIds == {201, 202}

CallerSession(id, state) ==
    [id |-> id, title |-> "", duration |-> 0, rating |-> 0, comment |-> "",
     timestamp |-> 0, state |-> state]

\* The database is new: the migration has old keys to move and no flag
InitContention ==
    /\ pending \in [local : {l \in OldLocalStorages :
                                /\ l.agamotto_migration_completed = <<>>
                                /\ l.agamotto_sessions = <<>>
                                /\ l.agamotto_stopgap = <<>>},
                    db : BOOLEAN,
                    config : {[defaultStopgap |-> <<>>, pauseTime |-> <<>>,
                               lastPausedTimestamp |-> <<>>, activeSessionId |-> <<>>,
                               localStorage_backup |-> <<>>]},
                    calls : {0}, saves : {0}]
    /\ sessions = StoreOf({})
    /\ pc = <<>>
    /\ history = <<>>
    /\ nextId = 0
    /\ clock = 1
    /\ content = ""
    /\ tags = DefaultTags

\* saveSession(session) up to its first request: an active or paused
\* session goes to the check, any other one to the put
SaveSessionCall ==
    /\ pending.saves < MaxSaves
    /\ \E id \in CallerIds, state \in States :
        pc' = Append(pc, [pc |-> IF IsLiveState(state) THEN "check" ELSE "put",
                          read |-> <<CallerSession(id, state)>>])
    /\ pending' = [pending EXCEPT !.saves = pending.saves + 1]
    /\ UNCHANGED <<sessions, history, nextId, clock, content, tags>>

\* The two index reads are answered: with another active or paused session
\* in the store the call is rejected, else the write transaction is opened
ExistenceCheck(i) ==
    /\ pc[i].pc = "check"
    /\ IF LiveIds(sessions) \ {pc[i].read[1].id} # {}
       THEN /\ pc' = Without(pc, i)
            /\ history' = Append(history, "rejected")
       ELSE /\ pc' = [pc EXCEPT ![i].pc = "put"]
            /\ history' = history
    /\ UNCHANGED <<sessions, pending, nextId, clock, content, tags>>

\* The put is answered: the session is in the store and the call resolves,
\* or the request failed and the call is rejected
WritePut(i) ==
    /\ pc[i].pc = "put"
    /\ \E stored \in BOOLEAN :
        /\ sessions' = IF stored THEN Put(sessions, pc[i].read[1].id, pc[i].read[1])
                       ELSE sessions
        /\ history' = Append(history, IF stored THEN "saved" ELSE "rejected")
    /\ pc' = Without(pc, i)
    /\ UNCHANGED <<pending, nextId, clock, content, tags>>

NextContention ==
    \/ SaveSessionCall
    \/ \E i \in 1..Len(pc) : ExistenceCheck(i)
    \/ \E i \in 1..Len(pc) : WritePut(i)
    \/ migrateFromLocalStorage
    \/ \E i \in 1..Len(pc) : MigrateSessions(i)
    \/ \E i \in 1..Len(pc) : MigrateStopgap(i)
    \/ \E i \in 1..Len(pc) : MigrateTimerState(i)
    \/ \E i \in 1..Len(pc) : StoreBackup(i)

SpecContention == InitContention /\ [][NextContention]_vars

\* C39: with saveSession calls interleaved at their awaits and the
\* migration writing the session of the old timer state, the sessions store
\* never holds more than one active or paused session
C39_AtMostOneLiveUnderContention == Cardinality(LiveIds(sessions)) <= 1

====
